---- MODULE Spec2Model ----
(***************************************************************************)
(* Session state pipeline of Redteam AI Assist.                            *)
(*                                                                         *)
(* The file based SessionStore (storage/session_store.py) is modelled at   *)
(* the granularity of its file system calls: every worker thread runs one  *)
(* store operation at a time and each action below is one step of that     *)
(* operation (an exists() check, an open(), a flock(), a rename ...).      *)
(* Threads live in worker processes; the threading.Lock of a SessionStore  *)
(* is private to a process, the flock on the lock file is shared by all.   *)
(*                                                                         *)
(* On top of the store run the service methods get_session and suggest     *)
(* (services/assistant_service.py), each a sequence of store operations.   *)
(* Functions that use no store (session id validation, the suggest         *)
(* fingerprint, PolicyGuard.sanitize_actions) are applied to one call at a *)
(* time, held in the variable call.                                        *)
(***************************************************************************)
EXTENDS Integers, Sequences, FiniteSets, TLC

VARIABLES
    max_events,   \* SessionStore.max_events, fixed at construction
    rec,          \* rec[s]: content of <store_dir>/<s>.json
    tmp,          \* tmp[s]: content of <store_dir>/<s>.json.tmp
    lockfile,     \* lockfile[s]: inode the name .<s>.lock refers to, 0 = no such file
    lockHolder,   \* lockHolder[i]: thread holding the flock of lock inode i
    plock,        \* plock[p]: thread holding SessionStore._lock of process p
    th,           \* th[t]: the operation thread t runs, its position and locals
    created,      \* session ids handed out by create_session so far
    nextEv,       \* number of ActivityEvents built so far (event ids are unique)
    nops,         \* number of requests still to come in this run
    deleted,      \* deleted[s]: the last delete_session(s) that returned True (on),
                  \* the threads that were inside an operation on s when it
                  \* returned (pend), and whether any ever returned True (ever)
    log,          \* log[s]: events of s in the order their append was published
    call          \* one call of a function that uses no store: its arguments and result

vars == <<max_events, rec, tmp, lockfile, lockHolder, plock, th, created, nextEv, nops, deleted, log, call>>

\* what no store operation changes
Env == <<max_events, call>>

----------------------------------------------------------------------------
(* Bounds of the model *)

\* largest max_events a store is configured with
MaxCap == 2
\* ActivityEvents built over a run
MaxAppended == 3
\* largest batch of one append_events request
MaxBatch == 2
\* requests received over a run of the concurrent store
MaxOps == 3
\* requests received over a run of a store used by one thread
MaxSeqOps == 4

Threads == {"t1", "t2", "t3"}
Procs == {"p1", "p2"}
\* t1 and t2 are threads of one worker process, t3 runs in a second worker
ProcOf(t) == IF t = "t3" THEN "p2" ELSE "p1"

\* session ids (all match _SAFE_ID_RE)
Ids == {"a", "b"}

\* lock inodes alive at once: one per name plus one per open handle
Inodes == 1 .. (Cardinality(Ids) + Cardinality(Threads))

----------------------------------------------------------------------------
(* Values *)

\* SessionRecord.cached_suggest = None
NoFingerprint == [v |-> "none"]
NoPayload == [kind |-> "none"]
NoCache == [fingerprint |-> NoFingerprint, payload |-> NoPayload]

\* the SessionStartRequest that session s is started with
StartRequestOf(s) ==
    [tenant_id |-> IF s = "a" THEN "ta" ELSE "tb", user_id |-> "ua",
     objective |-> "lab", target_scope |-> <<"10.10.10.25">>, policy_id |-> "lab-default"]

\* SessionRecord(session_id=..., tenant_id=request.tenant_id, ...) of
\* create_session; the other fields take their defaults: no events, no notes,
\* phase recon, no reasoning, no cached suggestion
SessionRecord(session_id, request) ==
    [session_id |-> session_id, tenant_id |-> request.tenant_id,
     user_id |-> request.user_id, objective |-> request.objective,
     target_scope |-> request.target_scope, policy_id |-> request.policy_id,
     updated_at |-> 0, current_phase |-> "recon", events |-> << >>, notes |-> << >>,
     last_reasoning |-> "none", cached_suggest |-> NoCache]

\* the session object of a thread that holds none yet
NewSession == SessionRecord("a", StartRequestOf("a"))

\* session.model_dump_json(): the JSON document of a session
FileOf(session) ==
    [st |-> "full", session_id |-> session.session_id, tenant_id |-> session.tenant_id,
     user_id |-> session.user_id, objective |-> session.objective,
     target_scope |-> session.target_scope, policy_id |-> session.policy_id,
     updated_at |-> session.updated_at, current_phase |-> session.current_phase,
     events |-> session.events, notes |-> session.notes,
     last_reasoning |-> session.last_reasoning, cached_suggest |-> session.cached_suggest]
\* SessionRecord.model_validate_json(payload) of a complete document
SessionOf(file) ==
    [session_id |-> file.session_id, tenant_id |-> file.tenant_id,
     user_id |-> file.user_id, objective |-> file.objective,
     target_scope |-> file.target_scope, policy_id |-> file.policy_id,
     updated_at |-> file.updated_at, current_phase |-> file.current_phase,
     events |-> file.events, notes |-> file.notes,
     last_reasoning |-> file.last_reasoning, cached_suggest |-> file.cached_suggest]

NoFile == [FileOf(NewSession) EXCEPT !.st = "nofile"]
\* a file that exists but does not parse as a SessionRecord (empty, truncated, mixed)
Partial == [FileOf(NewSession) EXCEPT !.st = "partial"]

\* no function call is being looked at
NoCall == [fn |-> "none"]

\* a request without parameters
NoReq == [kind |-> "none"]
\* the thread's call before this one was no suggest on the same session
NoPrev == [res |-> "none"]
\* a thread that is not inside a service method. job: the service method the
\* store operation is a step of; fingerprint: the fingerprint suggest computed;
\* lookup: what the look into the cached suggestion gave; seen: how many
\* published events the session had when suggest read it; prev: request and
\* outcome of the suggest the thread made just before on the same session
NoSuggest == [job |-> "none", fingerprint |-> NoFingerprint, lookup |-> "none", seen |-> 0,
              prev |-> NoPrev]

\* a thread between requests. op, sid: the operation and its session id; pc: its
\* position; h: the lock inode its handle has open; sess: the session object it
\* works on; arg: the events its mutator appends; mut: its mutator; wloc: where
\* the inode behind its open temp file descriptor is; todo: the paths
\* list_sessions still has to read; ret: the sessions returned; res: the
\* outcome; post: the request came in after a worker crash; req: the
\* parameters of the request; sg: where the thread is in suggest
Idle == [op |-> "none", sid |-> "a", pc |-> "idle", h |-> 0, sess |-> NewSession,
         arg |-> << >>, res |-> "none", wloc |-> "none", mut |-> "none",
         todo |-> << >>, ret |-> << >>, post |-> FALSE, req |-> NoReq,
         sg |-> NoSuggest]

Min(S) == CHOOSE x \in S : \A y \in S : x <= y

\* events[-n:] of Python, for any integer n
TailSlice(events, n) ==
    LET len == Len(events)
        start == IF n > 0 THEN (IF len - n > 0 THEN len - n ELSE 0)
                 ELSE (IF -n < len THEN -n ELSE len)
    IN  SubSeq(events, start + 1, len)

\* update_session: "Enforce event cap."
EnforceCap(session, cap) ==
    IF Len(session.events) > cap
    THEN [session EXCEPT !.events = TailSlice(session.events, cap)]
    ELSE session

\* Mutate with an append_events that replaces the events
MutateReplacesEvents(kind, session, arg) ==
    CASE kind = "append_events" -> [session EXCEPT !.events = arg]
      [] kind = "append_note"   -> [session EXCEPT !.notes = session.notes \o arg,
                                                   !.events = session.events \o arg]
      [] OTHER                  -> session

\* the mutators handed to update_session
Mutate(kind, session, arg) ==
    CASE kind = "append_events" -> [session EXCEPT !.events = session.events \o arg]
      [] kind = "append_note"   -> [session EXCEPT !.notes = session.notes \o arg,
                                                   !.events = session.events \o arg]
      [] OTHER                  -> session

----------------------------------------------------------------------------
(* Initial states: the store directory a SessionStore is constructed over *)

IdNo(s) == IF s = "a" THEN 1 ELSE 2

\* the session the contention scenarios are about
Hot == {"a"}

\* nothing is going on in the store directory: no temp file, no lock held, no
\* request running, `budget` requests to come
Quiet(budget) ==
    /\ tmp = [s \in Ids |-> NoFile]
    /\ lockHolder = [i \in Inodes |-> "none"]
    /\ plock = [p \in Procs |-> "none"]
    /\ th = [t \in Threads |-> Idle]
    /\ nextEv = 0
    /\ nops = budget
    /\ deleted = [s \in Ids |-> [on |-> FALSE, pend |-> {}, ever |-> FALSE]]
    /\ log = [s \in Ids |-> << >>]

\* a store directory that holds the sessions `have` of earlier runs, each with
\* its record and the lock file its create_session left behind, and threads
\* that have `budget` requests to come
StoreDir(have, budget) ==
    /\ rec = [s \in Ids |-> IF s \in have THEN FileOf(SessionRecord(s, StartRequestOf(s)))
                             ELSE NoFile]
    /\ lockfile = [s \in Ids |-> IF s \in have THEN IdNo(s) ELSE 0]
    /\ created = have
    /\ Quiet(budget)

\* the same, with no function call being looked at
Existing(have, budget) ==
    /\ StoreDir(have, budget)
    /\ call = NoCall

Init ==
    /\ max_events = MaxCap
    /\ \E have \in SUBSET Hot : Existing(have, MaxOps)

----------------------------------------------------------------------------
(* Helpers over the file system state *)

Free(t) == th[t].pc \in {"idle", "done"} /\ th[t].sg.job = "none"
\* some thread's last operation ended with the death of its worker
AfterCrash == \E t \in Threads : th[t].res = "crashed"
\* the threads inside an operation on session s
InFlight(s) == {t \in Threads : ~Free(t) /\ th[t].sid = s}

\* inodes no name and no open handle refers to
UnusedInodes ==
    {i \in Inodes : (\A s \in Ids : lockfile[s] # i) /\ (\A t \in Threads : th[t].h # i)}

\* where the inode behind a writer's open descriptor ends up when the name
\* <s>.json.tmp is renamed over <s>.json
AfterReplace(w) == IF w = "tmp" THEN "rec" ELSE IF w = "rec" THEN "gone" ELSE w
\* ... and when <s>.json is unlinked
AfterUnlink(w) == IF w = "rec" THEN "gone" ELSE w

\* which pc follows the flock, by operation: the body of the with block
BodyOf(op) ==
    CASE op = "create"  -> "w_lock"
      [] op = "delete" -> "d_unlink_rec"
      [] OTHER         -> "u_exists"

Begin(t, op, s, pc, session, arg, mut) ==
    /\ nops > 0
    /\ nops' = nops - 1
    /\ deleted' = [deleted EXCEPT ![s].on = FALSE]
    /\ th' = [th EXCEPT ![t] = [Idle EXCEPT !.op = op, !.sid = s, !.pc = pc,
                                             !.sess = session, !.arg = arg, !.mut = mut,
                                             !.post = AfterCrash]]

\* the thread's state once its operation has returned or raised `res`
Finished(r, res, ret) ==
    [Idle EXCEPT !.op = r.op, !.sid = r.sid, !.pc = "done", !.res = res, !.arg = r.arg,
                 !.ret = ret, !.post = r.post, !.req = r.req, !.sg = r.sg]
Return(t, res) == th' = [th EXCEPT ![t] = Finished(th[t], res, << >>)]
ReturnValue(t, ret) == th' = [th EXCEPT ![t] = Finished(th[t], "ok", ret)]

Goto(t, pc) == th' = [th EXCEPT ![t].pc = pc]
Raise(t, pc, err) == th' = [th EXCEPT ![t].pc = pc, ![t].res = err]

\* utc_now(): time passes with the requests received
Now == MaxSeqOps - nops

\* the store and its threads stay as they are
StoreSame ==
    UNCHANGED <<max_events, rec, tmp, lockfile, lockHolder, plock, th, created, nextEv,
                nops, deleted, log>>

FsSame == UNCHANGED <<rec, tmp, lockfile, lockHolder, plock>>
GhostSame == UNCHANGED <<Env, created, nextEv, nops, deleted, log>>

----------------------------------------------------------------------------
(* Requests: a free thread starts a store operation *)

\* create_session: a fresh uuid4 id, then save_session(session)
StartCreate(t, S) ==
    /\ Free(t)
    /\ \E s \in S \ created :
        /\ created' = created \cup {s}
        /\ Begin(t, "create", s, "open",
                 [SessionRecord(s, StartRequestOf(s)) EXCEPT !.updated_at = Now], << >>, "none")
    /\ FsSame
    /\ UNCHANGED <<Env, nextEv, log>>

\* append_events(session_id, request): request.events are n new events
StartAppendEvents(t, S) ==
    /\ Free(t)
    /\ \E s \in S, n \in 0 .. MaxBatch :
        /\ nextEv + n <= MaxAppended
        /\ nextEv' = nextEv + n
        /\ Begin(t, "append_events", s, "open", NewSession,
                 [i \in 1 .. n |-> nextEv + i], "append_events")
    /\ FsSame
    /\ UNCHANGED <<Env, created, log>>

\* append_note(session_id, message): one note event built by the mutator
StartAppendNote(t, S) ==
    /\ Free(t)
    /\ \E s \in S :
        /\ nextEv + 1 <= MaxAppended
        /\ nextEv' = nextEv + 1
        /\ Begin(t, "append_note", s, "open", NewSession, <<nextEv + 1>>, "append_note")
    /\ FsSame
    /\ UNCHANGED <<Env, created, log>>

\* update_session(session_id, mutator) with a mutator that raises
StartUpdateRaising(t, S) ==
    /\ Free(t)
    /\ \E s \in S : Begin(t, "update", s, "open", NewSession, << >>, "raise")
    /\ FsSame
    /\ UNCHANGED <<Env, created, nextEv, log>>

StartGet(t, S) ==
    /\ Free(t)
    /\ \E s \in S : Begin(t, "get", s, "g_exists", NewSession, << >>, "none")
    /\ FsSame
    /\ UNCHANGED <<Env, created, nextEv, log>>

StartDelete(t, S) ==
    /\ Free(t)
    /\ \E s \in S : Begin(t, "delete", s, "d_exists", NewSession, << >>, "none")
    /\ FsSame
    /\ UNCHANGED <<Env, created, nextEv, log>>

----------------------------------------------------------------------------
(* get_session *)

\* path.exists()
GetExists(t) ==
    /\ th[t].pc = "g_exists"
    /\ IF rec[th[t].sid].st = "nofile"
       THEN Return(t, "None")
       ELSE Goto(t, "g_read")
    /\ FsSame
    /\ GhostSame

\* what read_text + model_validate_json give for file content f
ReadResult(f) ==
    CASE f.st = "nofile"  -> "FileNotFoundError"
      [] f.st = "partial" -> "ValidationError"
      [] OTHER            -> "ok"

\* path.read_text(); SessionRecord.model_validate_json(payload)
GetRead(t) ==
    /\ th[t].pc = "g_read"
    /\ LET f == rec[th[t].sid] IN
       IF ReadResult(f) = "ok" THEN ReturnValue(t, <<SessionOf(f)>>)
       ELSE Return(t, ReadResult(f))
    /\ FsSame
    /\ GhostSame

----------------------------------------------------------------------------
(* _session_lock *)

\* lock_path.open("a+"): opens the lock file, creating it when the name is free
OpenLock(t) ==
    /\ th[t].pc = "open"
    /\ LET s == th[t].sid
           i == IF lockfile[s] # 0 THEN lockfile[s] ELSE Min(UnusedInodes)
       IN  /\ lockfile' = [lockfile EXCEPT ![s] = i]
           /\ th' = [th EXCEPT ![t].pc = "flock", ![t].h = i]
    /\ UNCHANGED <<rec, tmp, lockHolder, plock>>
    /\ GhostSame

\* AcquireFlock with a lock that excludes nobody (LOCK_SH for LOCK_EX)
AcquireFlockShared(t) ==
    /\ th[t].pc = "flock"
    /\ lockHolder' = [lockHolder EXCEPT ![th[t].h] = t]
    /\ Goto(t, BodyOf(th[t].op))
    /\ UNCHANGED <<rec, tmp, lockfile, plock>>
    /\ GhostSame

\* fcntl.flock(handle, LOCK_EX): blocks while another open file holds the lock
AcquireFlock(t) ==
    /\ th[t].pc = "flock"
    /\ lockHolder[th[t].h] = "none"
    /\ lockHolder' = [lockHolder EXCEPT ![th[t].h] = t]
    /\ Goto(t, BodyOf(th[t].op))
    /\ UNCHANGED <<rec, tmp, lockfile, plock>>
    /\ GhostSame

\* ReleaseFlock without the try/finally and with a handle that outlives the
\* call: the lock is dropped on the normal return only
ReleaseFlockOnReturnOnly(t) ==
    /\ th[t].pc = "unlock"
    /\ lockHolder' = IF th[t].res \in {"none", "True"}
                     THEN [lockHolder EXCEPT ![th[t].h] = "none"]
                     ELSE lockHolder
    /\ IF th[t].res = "none"
       THEN ReturnValue(t, <<th[t].sess>>)
       ELSE Return(t, th[t].res)
    /\ deleted' = IF th[t].op = "delete" /\ th[t].res = "True"
                  THEN [deleted EXCEPT ![th[t].sid] =
                          [on |-> TRUE, pend |-> InFlight(th[t].sid) \ {t}, ever |-> TRUE]]
                  ELSE deleted
    /\ UNCHANGED <<rec, tmp, lockfile, plock>>
    /\ UNCHANGED <<Env, created, nextEv, nops, log>>

\* finally: flock(LOCK_UN), then the handle is closed; the operation returns
\* or re-raises
ReleaseFlock(t) ==
    /\ th[t].pc = "unlock"
    /\ lockHolder' = [lockHolder EXCEPT ![th[t].h] = "none"]
    /\ IF th[t].res = "none"
       THEN ReturnValue(t, <<th[t].sess>>)
       ELSE Return(t, th[t].res)
    /\ deleted' = IF th[t].op = "delete" /\ th[t].res = "True"
                  THEN [deleted EXCEPT ![th[t].sid] =
                          [on |-> TRUE, pend |-> InFlight(th[t].sid) \ {t}, ever |-> TRUE]]
                  ELSE deleted
    /\ UNCHANGED <<rec, tmp, lockfile, plock>>
    /\ UNCHANGED <<Env, created, nextEv, nops, log>>

----------------------------------------------------------------------------
(* update_session, inside the per-session lock *)

\* UpdateExists that starts a new record when there is none (an upsert)
UpdateExistsUpsert(t) ==
    /\ th[t].pc = "u_exists"
    /\ IF rec[th[t].sid].st = "nofile"
       THEN th' = [th EXCEPT ![t].pc = "w_lock",
                             ![t].sess = SessionRecord(th[t].sid, StartRequestOf(th[t].sid))]
       ELSE Goto(t, "u_read")
    /\ FsSame
    /\ GhostSame

\* session = self.get_session(session_id): path.exists()
UpdateExists(t) ==
    /\ th[t].pc = "u_exists"
    /\ IF rec[th[t].sid].st = "nofile"
       THEN Raise(t, "unlock", "KeyError")
       ELSE Goto(t, "u_read")
    /\ FsSame
    /\ GhostSame

\* the rest of get_session, then mutator(session), the event cap and updated_at
UpdateMutate(t) ==
    /\ th[t].pc = "u_read"
    /\ LET f == rec[th[t].sid] IN
       IF ReadResult(f) # "ok"
       THEN Raise(t, "unlock", ReadResult(f))
       ELSE IF th[t].mut = "raise"
       THEN Raise(t, "unlock", "MutatorError")
       ELSE th' = [th EXCEPT ![t].pc = "w_lock",
                             ![t].sess =
                                [EnforceCap(Mutate(th[t].mut, SessionOf(f), th[t].arg), max_events)
                                    EXCEPT !.updated_at = Now]]
    /\ FsSame
    /\ GhostSame

----------------------------------------------------------------------------
(* _write_session_atomic *)

\* with self._lock: the threading.Lock of this process's SessionStore
AcquireThreadLock(t) ==
    /\ th[t].pc = "w_lock"
    /\ plock[ProcOf(t)] = "none"
    /\ plock' = [plock EXCEPT ![ProcOf(t)] = t]
    /\ Goto(t, "w_open")
    /\ UNCHANGED <<rec, tmp, lockfile, lockHolder>>
    /\ GhostSame

\* WriteOpen of a store that writes the record in place: open(path, "w")
WriteOpenInPlace(t) ==
    /\ th[t].pc = "w_open"
    /\ \/ /\ rec' = [rec EXCEPT ![th[t].sid] = Partial]
          /\ th' = [th EXCEPT ![t].pc = "w_write", ![t].wloc = "rec"]
       \/ /\ Raise(t, "w_unlock", "OSError")
          /\ UNCHANGED rec
    /\ UNCHANGED <<tmp, lockfile, lockHolder, plock>>
    /\ GhostSame

\* tmp_path.write_text(...), first half: open(tmp, "w") creates or truncates the file
WriteOpen(t) ==
    /\ th[t].pc = "w_open"
    /\ \/ /\ tmp' = [tmp EXCEPT ![th[t].sid] = Partial]
          /\ th' = [th EXCEPT ![t].pc = "w_write", ![t].wloc = "tmp"]
       \/ /\ Raise(t, "w_unlock", "OSError")
          /\ UNCHANGED tmp
    /\ UNCHANGED <<rec, lockfile, lockHolder, plock>>
    /\ GhostSame

\* what a write of `data` from offset 0 leaves in a file that holds `old`:
\* over the writer's own truncation it is the data; over bytes another writer
\* put there meanwhile it is the data or a mix of both
Written(old, data) ==
    IF old.st = "full" /\ old # data THEN {data, Partial} ELSE {data}

\* tmp_path.write_text(...), second half: write the JSON document and close.
\* The descriptor writes to the inode it opened, whatever name that has now.
WriteData(t) ==
    /\ th[t].pc = "w_write"
    /\ LET s == th[t].sid
           data == FileOf(th[t].sess)
       IN  \/ /\ th[t].wloc = "tmp"
              /\ \E c \in Written(tmp[s], data) : tmp' = [tmp EXCEPT ![s] = c]
              /\ UNCHANGED rec
              /\ th' = [th EXCEPT ![t].pc = "w_replace", ![t].wloc = "none"]
           \/ /\ th[t].wloc = "rec"
              /\ \E c \in Written(rec[s], data) : rec' = [rec EXCEPT ![s] = c]
              /\ UNCHANGED tmp
              /\ th' = [th EXCEPT ![t].pc = "w_replace", ![t].wloc = "none"]
           \/ /\ th[t].wloc = "gone"
              /\ UNCHANGED <<rec, tmp>>
              /\ th' = [th EXCEPT ![t].pc = "w_replace", ![t].wloc = "none"]
           \/ /\ th' = [th EXCEPT ![t].pc = "w_unlock", ![t].wloc = "none",
                                  ![t].res = "OSError"]
              /\ UNCHANGED <<rec, tmp>>
    /\ UNCHANGED <<lockfile, lockHolder, plock>>
    /\ GhostSame

\* log after thread t published its record of session s
Published(t) ==
    IF th[t].op \in {"append_events", "append_note"}
    THEN log[th[t].sid] \o th[t].arg
    ELSE IF th[t].op = "create" THEN << >> ELSE log[th[t].sid]

\* tmp_path.replace(path)
Replace(t) ==
    /\ th[t].pc = "w_replace"
    /\ LET s == th[t].sid IN
       IF tmp[s].st = "nofile"
       THEN /\ Raise(t, "w_unlock", "FileNotFoundError")
            /\ UNCHANGED <<rec, tmp, log>>
       ELSE /\ rec' = [rec EXCEPT ![s] = tmp[s]]
            /\ tmp' = [tmp EXCEPT ![s] = NoFile]
            /\ th' = [x \in Threads |->
                        IF x = t THEN [th[x] EXCEPT !.pc = "w_unlock"]
                        ELSE IF th[x].sid = s
                        THEN [th[x] EXCEPT !.wloc = AfterReplace(th[x].wloc)]
                        ELSE th[x]]
            /\ log' = [log EXCEPT ![s] = Published(t)]
    /\ UNCHANGED <<lockfile, lockHolder, plock>>
    /\ UNCHANGED <<Env, created, nextEv, nops, deleted>>

\* ReleaseThreadLock with acquire() and release() around the write in place
\* of the with block: an exception in the write leaves the lock held
ReleaseThreadLockOnSuccessOnly(t) ==
    /\ th[t].pc = "w_unlock"
    /\ plock' = IF th[t].res = "none" THEN [plock EXCEPT ![ProcOf(t)] = "none"] ELSE plock
    /\ Goto(t, "unlock")
    /\ UNCHANGED <<rec, tmp, lockfile, lockHolder>>
    /\ GhostSame

\* leaving "with self._lock"
ReleaseThreadLock(t) ==
    /\ th[t].pc = "w_unlock"
    /\ plock' = [plock EXCEPT ![ProcOf(t)] = "none"]
    /\ Goto(t, "unlock")
    /\ UNCHANGED <<rec, tmp, lockfile, lockHolder>>
    /\ GhostSame

----------------------------------------------------------------------------
(* delete_session *)

\* DeleteExists without the early return
DeleteExistsUnchecked(t) ==
    /\ th[t].pc = "d_exists"
    /\ Goto(t, "open")
    /\ FsSame
    /\ GhostSame

\* if not path.exists(): return False
DeleteExists(t) ==
    /\ th[t].pc = "d_exists"
    /\ IF rec[th[t].sid].st = "nofile"
       THEN Return(t, "False")
       ELSE Goto(t, "open")
    /\ FsSame
    /\ GhostSame

\* path.unlink(missing_ok=True)
DeleteUnlinkRecord(t) ==
    /\ th[t].pc = "d_unlink_rec"
    /\ LET s == th[t].sid IN
       /\ rec' = [rec EXCEPT ![s] = NoFile]
       /\ th' = [x \in Threads |->
                   IF x = t THEN [th[x] EXCEPT !.pc = "d_unlink_lock"]
                   ELSE IF th[x].sid = s
                   THEN [th[x] EXCEPT !.wloc = AfterUnlink(th[x].wloc)]
                   ELSE th[x]]
       /\ log' = [log EXCEPT ![s] = << >>]
    /\ UNCHANGED <<tmp, lockfile, lockHolder, plock>>
    /\ UNCHANGED <<Env, created, nextEv, nops, deleted>>

\* lock_path.unlink(missing_ok=True); the with block ends and True is returned
DeleteUnlinkLock(t) ==
    /\ th[t].pc = "d_unlink_lock"
    /\ lockfile' = [lockfile EXCEPT ![th[t].sid] = 0]
    /\ Raise(t, "unlock", "True")
    /\ UNCHANGED <<rec, tmp, lockHolder, plock>>
    /\ GhostSame

----------------------------------------------------------------------------
(* list_sessions *)

\* the ids in the order of sorted(paths)
RECURSIVE SortedIds(_)
SortedIds(S) ==
    IF S = {} THEN << >>
    ELSE LET m == CHOOSE x \in S : \A y \in S : IdNo(x) <= IdNo(y)
         IN  <<m>> \o SortedIds(S \ {m})

\* a filter of list_sessions: a string that is given, or None
NoFilter == [given |-> FALSE, value |-> ""]
Filter(value) == [given |-> TRUE, value |-> value]

\* list_sessions() as the tests call it: no filter, limit = 100
DefaultList == [kind |-> "list", tenant_id |-> NoFilter, user_id |-> NoFilter, limit |-> 100]

\* `if tenant_id`: None and the empty string are falsy
Truthy(filter) == filter.given /\ filter.value # ""

\* the session passes both `continue` tests of the loop
PassesFilters(session, request) ==
    /\ ~(Truthy(request.tenant_id) /\ session.tenant_id # request.tenant_id.value)
    /\ ~(Truthy(request.user_id) /\ session.user_id # request.user_id.value)

\* sessions.sort(key=lambda item: item.updated_at, reverse=True): a stable
\* sort, so sessions with equal updated_at keep the order they were read in
RECURSIVE SortByUpdatedAt(_)
SortByUpdatedAt(sessions) ==
    IF sessions = << >> THEN << >>
    ELSE LET top == CHOOSE i \in 1 .. Len(sessions) :
                        /\ \A j \in 1 .. Len(sessions) :
                               sessions[j].updated_at <= sessions[i].updated_at
                        /\ \A j \in 1 .. i - 1 :
                               sessions[j].updated_at < sessions[i].updated_at
         IN  <<sessions[top]>>
                \o SortByUpdatedAt(SubSeq(sessions, 1, top - 1)
                                     \o SubSeq(sessions, top + 1, Len(sessions)))

\* sessions[:n] of Python, for any integer n
HeadSlice(sessions, n) ==
    LET len == Len(sessions)
        stop == IF n >= 0 THEN (IF n < len THEN n ELSE len)
                ELSE (IF len + n > 0 THEN len + n ELSE 0)
    IN  SubSeq(sessions, 1, stop)

\* sorted(self.store_dir.glob("*.json")): the names <s>.json that exist now;
\* <s>.json.tmp and .<s>.lock do not match the pattern, and every name in the
\* directory is a safe id
StartList(t, Requests) ==
    /\ Free(t)
    /\ nops > 0
    /\ nops' = nops - 1
    /\ \E r \in Requests :
        th' = [th EXCEPT ![t] = [Idle EXCEPT !.op = "list", !.pc = "l_read",
                 !.post = AfterCrash, !.req = r,
                 !.todo = SortedIds({s \in Ids : rec[s].st # "nofile"})]]
    /\ FsSame
    /\ UNCHANGED <<Env, created, nextEv, deleted, log>>

\* one turn of the loop: read and parse the next path, skipping it on any
\* exception and when a filter rejects it; after the last one the sessions
\* are sorted, cut to the limit and returned
ListRead(t) ==
    /\ th[t].pc = "l_read"
    /\ IF th[t].todo = << >>
       THEN ReturnValue(t, HeadSlice(SortByUpdatedAt(th[t].ret), th[t].req.limit))
       ELSE LET f == rec[Head(th[t].todo)] IN
            th' = [th EXCEPT ![t].todo = Tail(th[t].todo),
                             ![t].ret = IF /\ ReadResult(f) = "ok"
                                           /\ PassesFilters(SessionOf(f), th[t].req)
                                        THEN th[t].ret \o <<SessionOf(f)>>
                                        ELSE th[t].ret]
    /\ FsSame
    /\ GhostSame

----------------------------------------------------------------------------
(* AssistantService.suggest *)

\* last_events = session.events[-25:]
FingerprintEvents == 25

\* vector_store.index_version() of an index file nobody rewrites: no file, "0:0"
IndexVersion == "0:0"

\* the SuggestRequests sent: with or without a user message, focus auto or
\* report, and with phase_override report, persisted or not
SuggestRequests ==
    {[kind |-> "suggest", user_message |-> m, memory_mode |-> "window",
      history_window |-> 12, phase_override |-> "none",
      persist_phase_override |-> FALSE, rag_focus |-> f] :
        m \in {"none", "msg"}, f \in {"auto", "report"}}
    \cup {[kind |-> "suggest", user_message |-> "none", memory_mode |-> "window",
           history_window |-> 12, phase_override |-> "report",
           persist_phase_override |-> persist, rag_focus |-> "auto"] :
            persist \in BOOLEAN}

\* ComputeSuggestFingerprint without rag_focus in the request part
ComputeSuggestFingerprintNoFocus(session, request, version) ==
    [v |-> "mvp++-suggest-v1",
     session_id |-> session.session_id,
     objective |-> session.objective,
     target_scope |-> session.target_scope,
     policy_id |-> session.policy_id,
     current_phase |-> session.current_phase,
     request |-> [memory_mode |-> request.memory_mode,
                  history_window |-> request.history_window,
                  phase_override |-> request.phase_override],
     events |-> TailSlice(session.events, FingerprintEvents),
     rag_index_version |-> version]

\* _compute_suggest_fingerprint: sha256 over the canonical JSON of this payload.
\* The digest is taken to be collision-free, so the payload stands for it; an
\* event stands for its id, type, timestamp and payload.
ComputeSuggestFingerprint(session, request, version) ==
    [v |-> "mvp++-suggest-v1",
     session_id |-> session.session_id,
     objective |-> session.objective,
     target_scope |-> session.target_scope,
     policy_id |-> session.policy_id,
     current_phase |-> session.current_phase,
     request |-> [memory_mode |-> request.memory_mode,
                  history_window |-> request.history_window,
                  phase_override |-> request.phase_override,
                  rag_focus |-> request.rag_focus],
     events |-> TailSlice(session.events, FingerprintEvents),
     rag_index_version |-> version]

\* SuggestResponse.model_validate(payload) succeeds
ValidPayload(payload) == payload.kind = "response"

\* suggest returns or raises: the thread is free again and keeps what it
\* computed on the way
FinishSuggest(t, res, ret, fingerprint, lookup) ==
    th' = [th EXCEPT ![t] =
             [Idle EXCEPT !.op = "suggest", !.sid = th[t].sid, !.pc = "done",
                          !.res = res, !.ret = ret, !.post = th[t].post,
                          !.req = th[t].req,
                          !.sg = [th[t].sg EXCEPT !.job = "none",
                                                  !.fingerprint = fingerprint,
                                                  !.lookup = lookup]]]

\* what the thread's last call gave, when that was a suggest on session s
PrevSuggest(t, s) ==
    IF th[t].op = "suggest" /\ th[t].pc = "done" /\ th[t].sid = s
    THEN [res |-> th[t].res, ret |-> th[t].ret, req |-> th[t].req,
          lookup |-> th[t].sg.lookup, fingerprint |-> th[t].sg.fingerprint]
    ELSE NoPrev

\* suggest(session_id, request): with a user message it starts by
\* append_note(session_id, message), without one by get_session(session_id)
StartSuggest(t, S) ==
    /\ Free(t)
    /\ nops > 0
    /\ nops' = nops - 1
    /\ \E s \in S, r \in SuggestRequests :
        /\ deleted' = [deleted EXCEPT ![s].on = FALSE]
        /\ IF r.user_message # "none"
           THEN /\ nextEv + 1 <= MaxAppended
                /\ nextEv' = nextEv + 1
                /\ th' = [th EXCEPT ![t] =
                            [Idle EXCEPT !.op = "append_note", !.sid = s, !.pc = "open",
                                         !.arg = <<nextEv + 1>>, !.mut = "append_note",
                                         !.post = AfterCrash, !.req = r,
                                         !.sg = [NoSuggest EXCEPT !.job = "suggest",
                                                                  !.prev = PrevSuggest(t, s)]]]
           ELSE /\ nextEv' = nextEv
                /\ th' = [th EXCEPT ![t] =
                            [Idle EXCEPT !.op = "get", !.sid = s, !.pc = "g_exists",
                                         !.post = AfterCrash, !.req = r,
                                         !.sg = [NoSuggest EXCEPT !.job = "suggest",
                                                                  !.prev = PrevSuggest(t, s)]]]
    /\ FsSame
    /\ UNCHANGED <<Env, created, log>>

\* append_note has returned or raised: an exception leaves suggest, otherwise
\* session = self.session_store.get_session(session_id) comes next
SuggestAfterNote(t) ==
    /\ th[t].sg.job = "suggest" /\ th[t].pc = "done" /\ th[t].op = "append_note"
    /\ IF th[t].res = "ok"
       THEN th' = [th EXCEPT ![t] =
                     [Idle EXCEPT !.op = "get", !.sid = th[t].sid, !.pc = "g_exists",
                                  !.post = th[t].post, !.req = th[t].req, !.sg = th[t].sg]]
       ELSE FinishSuggest(t, th[t].res, << >>, NoFingerprint, "none")
    /\ FsSame
    /\ GhostSame

\* get_session has returned: None raises KeyError; otherwise the fingerprint
\* is computed and compared with the one of session.cached_suggest, and a
\* cached payload that validates is returned
SuggestLookup(t) ==
    /\ th[t].sg.job = "suggest" /\ th[t].pc = "done" /\ th[t].op = "get"
    /\ IF th[t].res = "None"
       THEN FinishSuggest(t, "KeyError", << >>, NoFingerprint, "none")
       ELSE IF th[t].res # "ok"
       THEN FinishSuggest(t, th[t].res, << >>, NoFingerprint, "none")
       ELSE LET session == th[t].ret[1]
                fingerprint == ComputeSuggestFingerprint(session, th[t].req, IndexVersion)
                cached == session.cached_suggest
            IN  IF cached # NoCache /\ cached.fingerprint = fingerprint
                THEN IF ValidPayload(cached.payload)
                     THEN FinishSuggest(t, "ok", <<cached.payload>>, fingerprint, "hit")
                     ELSE th' = [th EXCEPT ![t].op = "suggest", ![t].pc = "s_run",
                                           ![t].sess = session, ![t].ret = << >>,
                                           ![t].sg = [th[t].sg EXCEPT !.fingerprint = fingerprint,
                                                                     !.lookup = "broken",
                                                                     !.seen = Len(log[th[t].sid])]]
                ELSE th' = [th EXCEPT ![t].op = "suggest", ![t].pc = "s_run",
                                      ![t].sess = session, ![t].ret = << >>,
                                      ![t].sg = [th[t].sg EXCEPT !.fingerprint = fingerprint,
                                                                     !.lookup = "miss",
                                                                     !.seen = Len(log[th[t].sid])]]
    /\ FsSame
    /\ GhostSame

\* state = self.workflow.run(session, memory_mode=..., history_window=...,
\* phase_override=..., rag_focus=...): AssistantWorkflow.run takes session,
\* memory_mode and history_window only, so the call raises TypeError before
\* the graph is invoked. The rest of suggest (building the response and the
\* write-back through update_session) is never reached.
WorkflowRun(t) ==
    /\ th[t].sg.job = "suggest" /\ th[t].pc = "s_run"
    /\ FinishSuggest(t, "TypeError", << >>, th[t].sg.fingerprint, th[t].sg.lookup)
    /\ FsSame
    /\ GhostSame

SuggestStep(t) ==
    \/ SuggestAfterNote(t)
    \/ SuggestLookup(t)
    \/ WorkflowRun(t)

----------------------------------------------------------------------------
(* AssistantService.get_session *)

\* get_session(session_id) of the service: it starts with the store's get_session
StartServiceGet(t, S) ==
    /\ Free(t)
    /\ nops > 0
    /\ nops' = nops - 1
    /\ \E s \in S :
        /\ deleted' = [deleted EXCEPT ![s].on = FALSE]
        /\ th' = [th EXCEPT ![t] =
                    [Idle EXCEPT !.op = "get", !.sid = s, !.pc = "g_exists",
                                 !.post = AfterCrash,
                                 !.sg = [NoSuggest EXCEPT !.job = "get_session"]]]
    /\ FsSame
    /\ UNCHANGED <<Env, created, nextEv, log>>

\* if session is None: raise KeyError; an exception of the store passes through
ServiceGetReturn(t) ==
    /\ th[t].sg.job = "get_session" /\ th[t].pc = "done" /\ th[t].op = "get"
    /\ th' = [th EXCEPT ![t] =
                [Idle EXCEPT !.op = "service_get", !.sid = th[t].sid, !.pc = "done",
                             !.res = IF th[t].res = "None" THEN "KeyError" ELSE th[t].res,
                             !.ret = th[t].ret, !.post = th[t].post]]
    /\ FsSame
    /\ GhostSame

\* the HTTP status of the routes: they turn KeyError into 404; any other
\* exception is the framework's 500
RouteStatus(res) ==
    CASE res \in {"ok", "True"} -> "2xx"
      [] res = "KeyError"       -> "404"
      [] OTHER                  -> "500"

----------------------------------------------------------------------------
(* A worker process dies *)

\* process p is killed while some of its threads are inside an operation: the
\* kernel closes their descriptors, which drops their flocks; the process's
\* threading.Lock dies with it. Files stay as they are. The threads of the
\* restarted worker are free.
Crash(p) ==
    /\ \E t \in Threads : ProcOf(t) = p /\ ~Free(t)
    /\ th' = [t \in Threads |->
                IF ProcOf(t) = p /\ ~Free(t)
                THEN [Finished(th[t], "crashed", << >>) EXCEPT !.sg = NoSuggest]
                ELSE th[t]]
    /\ lockHolder' = [i \in Inodes |->
                        IF lockHolder[i] \in Threads /\ ProcOf(lockHolder[i]) = p
                        THEN "none" ELSE lockHolder[i]]
    /\ plock' = [plock EXCEPT ![p] = "none"]
    /\ UNCHANGED <<rec, tmp, lockfile>>
    /\ GhostSame

----------------------------------------------------------------------------
(* The store under concurrent requests *)

Request(t) ==
    \/ StartCreate(t, Hot)
    \/ StartAppendNote(t, Hot)
    \/ StartUpdateRaising(t, Hot)
    \/ StartGet(t, Hot)
    \/ StartDelete(t, Hot)

LockStep(t) ==
    \/ OpenLock(t)
    \/ AcquireFlock(t)
    \/ ReleaseFlock(t)

GetStep(t) ==
    \/ GetExists(t)
    \/ GetRead(t)

UpdateStep(t) ==
    \/ UpdateExists(t)
    \/ UpdateMutate(t)

WriteStep(t) ==
    \/ AcquireThreadLock(t)
    \/ WriteOpen(t)
    \/ WriteData(t)
    \/ Replace(t)
    \/ ReleaseThreadLock(t)

DeleteStep(t) ==
    \/ DeleteExists(t)
    \/ DeleteUnlinkRecord(t)
    \/ DeleteUnlinkLock(t)

Next ==
    \E t \in Threads :
        Request(t) \/ LockStep(t) \/ GetStep(t) \/ UpdateStep(t) \/ WriteStep(t)
            \/ DeleteStep(t)

\* three threads of two worker processes serving requests on one session
Spec == Init /\ [][Next]_vars

----------------------------------------------------------------------------
(* One thread using the store, for every max_events from 0 *)

InitSeq ==
    /\ max_events \in 0 .. MaxCap
    /\ \E have \in SUBSET Hot : Existing(have, MaxSeqOps)

RequestSeq(t) ==
    \/ StartCreate(t, Hot)
    \/ StartAppendEvents(t, Hot)
    \/ StartAppendNote(t, Hot)
    \/ StartUpdateRaising(t, Hot)
    \/ StartGet(t, Hot)
    \/ StartDelete(t, Hot)
    \/ StartList(t, {DefaultList})
    \/ StartSuggest(t, Hot)

NextSeq ==
    \E t \in {"t1"} :
        RequestSeq(t) \/ LockStep(t) \/ GetStep(t) \/ UpdateStep(t) \/ WriteStep(t)
            \/ DeleteStep(t) \/ ListRead(t) \/ SuggestStep(t)

SpecSeq == InitSeq /\ [][NextSeq]_vars

----------------------------------------------------------------------------
(* Concurrent ingest into one existing session *)

InitUpd ==
    /\ max_events = MaxCap
    /\ Existing(Hot, MaxOps)

RequestUpd(t) ==
    \/ StartAppendEvents(t, Hot)
    \/ StartAppendNote(t, Hot)
    \/ StartGet(t, Hot)
    \/ StartDelete(t, Hot)

NextUpd ==
    \E t \in Threads :
        RequestUpd(t) \/ LockStep(t) \/ GetStep(t) \/ UpdateStep(t) \/ WriteStep(t)
            \/ DeleteStep(t)

SpecUpd == InitUpd /\ [][NextUpd]_vars

----------------------------------------------------------------------------
(* Writers, readers and worker crashes on one session *)

RequestCrash(t) ==
    \/ StartCreate(t, Hot)
    \/ StartAppendNote(t, Hot)
    \/ StartGet(t, Hot)
    \/ StartDelete(t, Hot)
    \/ StartList(t, {DefaultList})

NextCrash ==
    \/ \E t \in Threads :
        RequestCrash(t) \/ LockStep(t) \/ GetStep(t) \/ UpdateStep(t) \/ WriteStep(t)
            \/ DeleteStep(t) \/ ListRead(t)
    \/ \E p \in Procs : Crash(p)

SpecCrash == Init /\ [][NextCrash]_vars

----------------------------------------------------------------------------
(* Two threads of one worker updating two sessions *)

InitSessions ==
    /\ max_events = MaxCap
    /\ Existing(Ids, MaxOps)

NextSessions ==
    \E t \in {"t1", "t2"} :
        StartAppendNote(t, Ids) \/ LockStep(t) \/ UpdateStep(t) \/ WriteStep(t)

SpecSessions == InitSessions /\ [][NextSessions]_vars

----------------------------------------------------------------------------
(* Mutators of two sessions under a fair scheduler *)

\* calls made in a run under the fair scheduler
MaxLiveOps == 2

\* a store that holds session a; session b is still to be created
InitLive ==
    /\ max_events = MaxCap
    /\ Existing(Hot, MaxLiveOps)

RequestLive(t) ==
    \/ StartCreate(t, Ids)
    \/ StartAppendEvents(t, Ids)
    \/ StartAppendNote(t, Ids)
    \/ StartUpdateRaising(t, Ids)
    \/ StartDelete(t, Ids)

\* a step of the operation thread t is in
StepLive(t) == LockStep(t) \/ UpdateStep(t) \/ WriteStep(t) \/ DeleteStep(t)

NextLive == \E t \in Threads : RequestLive(t) \/ StepLive(t)

\* a thread that can go on is scheduled, and a thread blocked in flock or in
\* Lock.acquire is woken once the lock is free and stays free
FairLive == \A t \in Threads : WF_vars(StepLive(t))

SpecLive == InitLive /\ [][NextLive]_vars /\ FairLive

----------------------------------------------------------------------------
(* Properties of the session store *)

\* thread t holds the flock of the lock file it opened for session s
HoldsSessionLock(t, s) ==
    /\ ~Free(t)
    /\ th[t].sid = s
    /\ th[t].h # 0
    /\ lockHolder[th[t].h] = t

\* C4: at any time at most one operation among update_session, save_session
\* and delete_session holds the exclusive lock of a given session id.
C4_ExclusiveSessionLock ==
    \A s \in Ids : \A t, u \in Threads :
        HoldsSessionLock(t, s) /\ HoldsSessionLock(u, s) => t = u

\* C5: a get_session that runs concurrently with an update_session or a
\* delete_session on the same id returns the complete record or None; it never
\* fails with an error.
C5_GetNeverFails ==
    \A t \in Threads :
        th[t].op = "get" /\ th[t].pc = "done" => th[t].res \in {"ok", "None"}

\* C7: the per-session lock is released on every exit path of update_session,
\* save_session and delete_session (return, not found, mutator exception, I/O
\* failure): a thread that has left its operation holds no flock and has no
\* lock handle open, and every flock that is held belongs to a thread that is
\* still inside its with block on that handle.
C7_LockReleasedOnExit ==
    /\ \A t \in Threads :
        Free(t) => th[t].h = 0 /\ (\A i \in Inodes : lockHolder[i] # t)
    /\ \A i \in Inodes :
        lockHolder[i] # "none" =>
            ~Free(lockHolder[i]) /\ th[lockHolder[i]].h = i

\* C7 witness: an update_session left through its mutator's exception and
\* another operation on the same session holds the session lock
C7_Witness ==
    \E t, u \in Threads :
        /\ th[t].pc = "done" /\ th[t].res = "MutatorError"
        /\ HoldsSessionLock(u, th[t].sid)

\* C10: once delete_session on an existing session has returned True and every
\* operation that was in flight on that id at the same time has finished,
\* neither the session record nor a lock file for that id remains.
C10_DeleteLeavesNothing ==
    \A s \in Ids :
        deleted[s].on /\ deleted[s].pend \cap InFlight(s) = {} =>
            rec[s].st = "nofile" /\ lockfile[s] = 0

\* thread t cannot take its next step because thread u holds the lock it needs
BlockedBy(t, u) ==
    \/ th[t].pc = "flock" /\ lockHolder[th[t].h] = u
    \/ th[t].pc = "w_lock" /\ plock[ProcOf(t)] = u

\* C8: operations on different session ids never contend: an update_session
\* on one session is never kept waiting by an operation that is inside its
\* critical section (its write step included) on another session.
C8_NoContentionAcrossSessions ==
    \A t, u \in Threads :
        ~Free(t) /\ ~Free(u) /\ th[t].sid # th[u].sid => ~BlockedBy(t, u)

Range(seq) == {seq[i] : i \in 1 .. Len(seq)}

\* the last n entries of seq, in their order
LastN(seq, n) == SubSeq(seq, Len(seq) - n + 1, Len(seq))

IsAppend(t) == th[t].op \in {"append_events", "append_note"}

\* C1: when update_session calls run concurrently on one session, each
\* appending its own events, no append is lost: as long as the events fit
\* under max_events the persisted list is exactly the appends in the order
\* they were published, and it holds the events of every append that returned.
C1_NoLostUpdate ==
    \A s \in Ids :
        rec[s].st = "full" /\ Len(log[s]) <= max_events =>
            /\ rec[s].events = log[s]
            /\ \A t \in Threads :
                IsAppend(t) /\ th[t].sid = s /\ th[t].pc = "done" /\ th[t].res = "ok"
                    => Range(th[t].arg) \subseteq Range(rec[s].events)

\* C1 witness: two appends that overlapped (the one received first was
\* published second) have both returned and the record holds both
C1_Witness ==
    \E t, u \in Threads :
        /\ t # u /\ IsAppend(t) /\ IsAppend(u)
        /\ th[t].pc = "done" /\ th[t].res = "ok"
        /\ th[u].pc = "done" /\ th[u].res = "ok"
        /\ th[t].arg # << >> /\ th[u].arg # << >>
        /\ th[t].arg[1] < th[u].arg[1]
        /\ rec["a"].events = th[u].arg \o th[t].arg

\* C2: in every reachable state the events list of every persisted session
\* holds at most max_events entries, for every configured max_events.
C2_EventsWithinCap ==
    \A s \in Ids : rec[s].st = "full" => Len(rec[s].events) <= max_events

\* C3: once the events appended to a session exceed max_events, the persisted
\* list has exactly max_events entries: the last max_events appended events in
\* their original order.
C3_KeepsLastMaxEvents ==
    \A s \in Ids :
        rec[s].st = "full" /\ Len(log[s]) > max_events =>
            rec[s].events = LastN(log[s], max_events)

\* C6, state part: the record of a session is absent or a complete record
RecordsWhole == \A s \in Ids : rec[s].st \in {"nofile", "full"}

\* C6, step part: a write changes the record only by its rename, and what
\* appears is the complete record that writer set out to publish; no other
\* step of a write, and no crash, changes what a reader finds (the one other
\* change is a delete_session removing the record)
PublishIsAtomic ==
    \A s \in Ids :
        rec'[s] # rec[s] =>
            \E t \in Threads :
                /\ th[t].sid = s
                /\ \/ /\ th[t].pc = "w_replace" /\ th'[t].pc = "w_unlock"
                      /\ rec'[s] = FileOf(th[t].sess)
                   \/ /\ th[t].pc = "d_unlink_rec" /\ th'[t].pc = "d_unlink_lock"
                      /\ rec'[s] = NoFile

\* C6: a session write publishes the record by writing a temporary file and
\* renaming it over the record: whatever step a writer crashes at, a reader
\* finds the complete previous record or the complete new one, never a corrupt
\* or partially written one.
C6_WriteIsAtomic == []RecordsWhole /\ [][PublishIsAtomic]_vars

\* C6 witness: a worker has crashed in the middle of writing the temp file,
\* which is left torn, and a get_session that came in after the crash has
\* returned the complete record
C6_Witness ==
    \E t, u \in Threads :
        /\ th[t].res = "crashed" /\ th[t].op \in {"create", "append_note"}
        /\ tmp[th[t].sid] = Partial
        /\ \A w \in Threads : th[w].wloc = "none"
        /\ th[u].op = "get" /\ th[u].sid = th[t].sid /\ th[u].pc = "done" /\ th[u].post
        /\ th[u].res = "ok" /\ th[u].ret = <<SessionOf(rec[th[u].sid])>>

\* C9, state part: delete_session returns True or False and raises nothing;
\* when it has returned True the record is gone, and a get_session that
\* returns finds the record exactly when it is there
DeleteResult ==
    \A t \in Threads :
        th[t].pc = "done" =>
            /\ th[t].op = "delete" => th[t].res \in {"True", "False"}
            /\ th[t].op = "delete" /\ th[t].res = "True" => rec[th[t].sid].st = "nofile"
            /\ th[t].op = "get" => (th[t].res = "None" <=> rec[th[t].sid].st = "nofile")

\* C9, step part: delete_session decides at its exists() check: on a missing
\* record it returns False there and then and changes no file, on a present
\* one it goes on to delete
DeleteDecision ==
    \A t \in Threads :
        th[t].op = "delete" /\ th[t].pc = "d_exists" /\ th'[t] # th[t] =>
            IF rec[th[t].sid].st = "nofile"
            THEN /\ th'[t].pc = "done" /\ th'[t].res = "False"
                 /\ UNCHANGED <<rec, tmp, lockfile, lockHolder, plock>>
            ELSE th'[t].pc = "open"

\* C9: delete_session is idempotent: on an existing session it returns True
\* and afterwards get_session returns None; on a nonexistent or already
\* deleted session it returns False, raises nothing and changes no stored
\* state.
C9_DeleteIdempotent == []DeleteResult /\ [][DeleteDecision]_vars

\* C9 witness: a delete_session on a session that an earlier delete_session
\* removed has returned False
C9_Witness ==
    \E t \in Threads :
        /\ th[t].op = "delete" /\ th[t].pc = "done" /\ th[t].res = "False"
        /\ deleted[th[t].sid].ever

----------------------------------------------------------------------------
(* suggest next to ingest and delete on one session *)

\* number of requests in a short run
MaxListOps == 2

\* a SuggestResponse dumped to JSON, and a payload that is none
CachedPayload == [kind |-> "response", session_id |-> "a", phase |-> "recon",
                  reasoning |-> "cached"]
BrokenPayload == [kind |-> "malformed"]

\* the cached_suggest a stored record may carry: none; one that fits the
\* session and a request, whole or with a payload that does not validate.
\* The payload cached for a request with a phase override carries that phase.
CachedSuggests(session) ==
    {NoCache} \cup
    {[fingerprint |-> ComputeSuggestFingerprint(session, r, IndexVersion), payload |-> p] :
        r \in {x \in SuggestRequests : x.user_message = "none" /\ x.phase_override = "none"},
        p \in {CachedPayload, BrokenPayload}}
    \cup
    {[fingerprint |-> ComputeSuggestFingerprint(session, r, IndexVersion),
      payload |-> [CachedPayload EXCEPT !.phase = r.phase_override]] :
        r \in {x \in SuggestRequests : x.phase_override # "none"}}

InitSuggest ==
    /\ max_events = MaxCap
    /\ call = NoCall
    /\ \E c \in CachedSuggests(SessionRecord("a", StartRequestOf("a"))) :
        rec = [s \in Ids |->
                 IF s \in Hot
                 THEN FileOf([SessionRecord(s, StartRequestOf(s)) EXCEPT !.cached_suggest = c])
                 ELSE NoFile]
    /\ lockfile = [s \in Ids |-> IF s \in Hot THEN IdNo(s) ELSE 0]
    /\ created = Hot
    /\ Quiet(MaxListOps)

RequestSuggest(t) ==
    \/ StartSuggest(t, Hot)
    \/ StartAppendEvents(t, Hot)
    \/ StartDelete(t, Hot)

NextSuggest ==
    \E t \in {"t1", "t3"} :
        RequestSuggest(t) \/ LockStep(t) \/ GetStep(t) \/ UpdateStep(t) \/ WriteStep(t)
            \/ DeleteStep(t) \/ SuggestStep(t)

SpecSuggest == InitSuggest /\ [][NextSuggest]_vars

----------------------------------------------------------------------------
(* A store directory with records of several tenants, some of them damaged *)


\* what <s>.json may hold: nothing, something that is no SessionRecord (an
\* edited or damaged file), or the record of a tenant's session
StoredAs(s) ==
    {NoFile, Partial} \cup
    {FileOf([SessionRecord(s, [StartRequestOf(s) EXCEPT !.tenant_id = tn, !.user_id = u])
                EXCEPT !.updated_at = at]) :
        tn \in {"", "ta"}, u \in {"ua", "ub"}, at \in 0 .. 1}

\* GET /v1/sessions?tenant_id=..&user_id=..&limit=..: limit is at least 1
ListRequests ==
    {[kind |-> "list", tenant_id |-> f, user_id |-> g, limit |-> n] :
        f \in {NoFilter, Filter(""), Filter("ta"), Filter("tb")},
        g \in {NoFilter, Filter("ua")},
        n \in {1, 100}}

InitList ==
    /\ max_events = MaxCap
    /\ call = NoCall
    /\ rec \in {r \in [Ids -> UNION {StoredAs(s) : s \in Ids}] : \A s \in Ids : r[s] \in StoredAs(s)}
    /\ lockfile = [s \in Ids |-> IF rec[s].st # "nofile" THEN IdNo(s) ELSE 0]
    /\ created = {s \in Ids : rec[s].st # "nofile"}
    /\ Quiet(MaxListOps)

RequestList(t) ==
    \/ StartList(t, ListRequests)
    \/ StartGet(t, Ids)
    \/ StartServiceGet(t, Ids)
    \/ StartAppendNote(t, Ids)
    \/ StartDelete(t, Ids)

NextList ==
    \E t \in {"t1"} :
        RequestList(t) \/ LockStep(t) \/ GetStep(t) \/ UpdateStep(t) \/ WriteStep(t)
            \/ DeleteStep(t) \/ ListRead(t) \/ ServiceGetReturn(t)

SpecList == InitList /\ [][NextList]_vars

----------------------------------------------------------------------------
(* The suggest fingerprint of two inputs that differ in a few places *)

\* Settings.max_events_per_session as shipped
DefaultMaxEvents == 600

\* most events in a session that is fingerprinted
MaxFpEvents == 26

\* most places in which the second input differs from the first
MaxChanges == 2

\* the places that the fingerprint is said to depend on, and some others
ListedChanges ==
    {"session_id", "objective", "target_scope", "policy_id", "current_phase",
     "append_event", "memory_mode", "history_window", "phase_override", "rag_focus",
     "index_version"}
OtherChanges ==
    {"oldest_event", "notes", "last_reasoning", "updated_at", "cached_suggest",
     "user_message", "persist_phase_override"}

\* input `in` (a session, a request, an index version) changed in place c
Changed(in, c) ==
    CASE c = "session_id"     -> [in EXCEPT !.session.session_id = "b"]
      [] c = "objective"      -> [in EXCEPT !.session.objective = "other"]
      [] c = "target_scope"   -> [in EXCEPT !.session.target_scope = @ \o <<"10.10.10.26">>]
      [] c = "policy_id"      -> [in EXCEPT !.session.policy_id = "strict"]
      [] c = "current_phase"  -> [in EXCEPT !.session.current_phase = "enumeration"]
      [] c = "append_event"   ->
            [in EXCEPT !.session =
                EnforceCap(Mutate("append_events", @, <<Len(@.events) + 1>>), max_events)]
      [] c = "oldest_event"   ->
            [in EXCEPT !.session.events =
                IF @ = << >> THEN @ ELSE <<0>> \o Tail(@)]
      [] c = "notes"          -> [in EXCEPT !.session.notes = @ \o <<0>>]
      [] c = "last_reasoning" -> [in EXCEPT !.session.last_reasoning = "because"]
      [] c = "updated_at"     -> [in EXCEPT !.session.updated_at = @ + 1]
      [] c = "cached_suggest" ->
            [in EXCEPT !.session.cached_suggest =
                [fingerprint |-> NoFingerprint, payload |-> CachedPayload]]
      [] c = "memory_mode"    -> [in EXCEPT !.request.memory_mode = "summary"]
      [] c = "history_window" -> [in EXCEPT !.request.history_window = @ + 1]
      [] c = "phase_override" -> [in EXCEPT !.request.phase_override = "report"]
      [] c = "rag_focus"      -> [in EXCEPT !.request.rag_focus = "report"]
      [] c = "user_message"   -> [in EXCEPT !.request.user_message = "msg"]
      [] c = "persist_phase_override" ->
            [in EXCEPT !.request.persist_phase_override = TRUE]
      [] c = "index_version"  -> [in EXCEPT !.version = "17:42"]

RECURSIVE ChangedAll(_, _)
ChangedAll(in, cs) ==
    IF cs = {} THEN in
    ELSE LET c == CHOOSE x \in cs : TRUE IN ChangedAll(Changed(in, c), cs \ {c})

\* a stored session with n events, the default request, the index as it is
FingerprintInput(n) ==
    [session |-> [SessionRecord("a", StartRequestOf("a")) EXCEPT !.events = [i \in 1 .. n |-> i]],
     request |-> CHOOSE r \in SuggestRequests :
                    /\ r.user_message = "none" /\ r.rag_focus = "auto"
                    /\ r.phase_override = "none",
     version |-> IndexVersion]

InitFingerprint ==
    /\ max_events = DefaultMaxEvents
    /\ StoreDir({}, 0)
    /\ \E n \in {0, 1, MaxFpEvents - 2, MaxFpEvents - 1, MaxFpEvents},
          cs \in {d \in SUBSET (ListedChanges \cup OtherChanges) : Cardinality(d) <= MaxChanges} :
        call = [fn |-> "_compute_suggest_fingerprint", pc |-> "args", changes |-> cs,
                x |-> FingerprintInput(n), y |-> ChangedAll(FingerprintInput(n), cs),
                fx |-> NoFingerprint, fy |-> NoFingerprint]

\* the fingerprint of the first input is computed
FingerprintFirst ==
    /\ call.pc = "args"
    /\ call' = [call EXCEPT !.pc = "second",
                            !.fx = ComputeSuggestFingerprint(call.x.session, call.x.request,
                                                             call.x.version)]
    /\ StoreSame

\* the fingerprint of the second input is computed
FingerprintSecond ==
    /\ call.pc = "second"
    /\ call' = [call EXCEPT !.pc = "done",
                            !.fy = ComputeSuggestFingerprint(call.y.session, call.y.request,
                                                             call.y.version)]
    /\ StoreSame

NextFingerprint == FingerprintFirst \/ FingerprintSecond

SpecFingerprint == InitFingerprint /\ [][NextFingerprint]_vars

----------------------------------------------------------------------------
(* PolicyGuard.sanitize_actions *)

\* most words in a command
MaxTokens == 4

\* Settings.allowed_tools and Settings.blocklist_patterns as shipped; a
\* pattern is the words it is made of
AllowedTools ==
    {"nmap", "masscan", "naabu", "gobuster", "ffuf", "nikto", "curl", "wget", "sqlmap",
     "hydra", "netcat", "nc", "python", "bash", "sh", "whoami", "id", "cat", "ls", "echo"}
BlocklistPatterns ==
    {<<"rm", "-rf">>, <<"shutdown">>, <<"reboot">>, <<"powershell", "remove-item">>,
     <<"format", "c:">>, <<"mkfs">>, <<"dd", "if=">>}

\* the words commands are made of; a command is its words joined by blanks
Tokens ==
    {"nmap", "NMAP", "rm", "-rf", "-sV", "-Pn", "10.10.10.25", "10.10.10.99",
     "<TARGET_IN_SCOPE>", "Evil.Example.com"}

\* str.lower() of a word or a scope entry
Lower(word) ==
    CASE word = "<TARGET_IN_SCOPE>" -> "<target_in_scope>"
      [] word = "Evil.Example.com"  -> "evil.example.com"
      [] word = "NMAP"              -> "nmap"
      [] word = "-sV"               -> "-sv"
      [] word = "-Pn"               -> "-pn"
      [] word = "-I"                -> "-i"
      [] word = "Report"            -> "report"
      [] word = "Recon"             -> "recon"
      [] word = "Reporting"         -> "reporting"
      [] OTHER                      -> word

\* IP_PATTERN.findall and HOST_PATTERN.findall on one word: dotted quads
\* match both patterns, a dotted name the second; the placeholder has no dot
IpMatches(word) == IF word \in {"10.10.10.25", "10.10.10.99"} THEN {word} ELSE {}
HostMatches(word) ==
    IF word \in {"10.10.10.25", "10.10.10.99", "Evil.Example.com"} THEN {word} ELSE {}

\* an action without a command, and one with the command `words`
NoCommand == [given |-> FALSE, words |-> << >>]
Command(words) == [given |-> TRUE, words |-> words]

\* `if command`: None and the empty string are falsy
HasCommand(command) == command.given /\ command.words # << >>

\* the ActionItems proposed: no command, or any command of up to MaxTokens words
Actions ==
    {[title |-> "Scan target", rationale |-> [text |-> "test", reasons |-> << >>],
      command |-> c, done_criteria |-> "done"] :
        c \in {NoCommand} \cup
              {Command(w) : w \in UNION {[1 .. k -> Tokens] : k \in 1 .. MaxTokens}}}

\* the target_scope of a session: one address, none, a blank entry, a URL and
\* a host name
TargetScopes ==
    {<<"10.10.10.25">>, << >>, <<" ">>, <<"http://10.10.10.25/", "Evil.Example.com">>}

\* a scope entry that is a URL whose host part opens a bracket and never
\* closes it: urlparse raises ValueError("Invalid IPv6 URL") on it
MalformedUrl == "http://[10.10.10.25/"

\* a target_scope with such an entry, alone or after a good one
MalformedScopes == {<<MalformedUrl>>, <<"10.10.10.25", MalformedUrl>>}

\* _normalize_target raises on the target
NormalizeRaises(target) == target = MalformedUrl

\* _normalize_target: strip, lower, and the hostname of a URL
NormalizeTarget(target) ==
    CASE target = " "                   -> ""
      [] target = "http://10.10.10.25/" -> "10.10.10.25"
      [] OTHER                          -> Lower(target)

\* normalized_scope, with "" discarded
NormalizedScope(target_scope) ==
    {NormalizeTarget(target_scope[i]) : i \in 1 .. Len(target_scope)} \ {""}

\* command_lower contains the pattern
ContainsPattern(words, pattern) ==
    \E i \in 1 .. Len(words) - Len(pattern) + 1 :
        \A j \in 1 .. Len(pattern) : Lower(words[i + j - 1]) = pattern[j]

\* ExtractTool that takes the last word of the command
ExtractToolLastWord(words) == Lower(words[Len(words)])

\* _extract_tool: the first word, lowered
ExtractTool(words) == Lower(words[1])

\* FindOutOfScopeTargets that looks for IPv4 literals only
FindOutOfScopeTargetsIpOnly(words, normalized_scope) ==
    LET candidates == UNION {IpMatches(words[i]) : i \in 1 .. Len(words)}
    IN  IF \E i \in 1 .. Len(words) : Lower(words[i]) = "<target_in_scope>"
        THEN {}
        ELSE {NormalizeTarget(c) : c \in candidates} \ ({""} \cup normalized_scope)

\* FindOutOfScopeTargets that does not know the scope placeholder
FindOutOfScopeTargetsNoPlaceholder(words, normalized_scope) ==
    LET candidates == UNION {IpMatches(words[i]) \cup HostMatches(words[i]) :
                                i \in 1 .. Len(words)}
    IN  {NormalizeTarget(c) : c \in candidates} \ ({""} \cup normalized_scope)

\* _find_out_of_scope_targets
FindOutOfScopeTargets(words, normalized_scope) ==
    LET candidates == UNION {IpMatches(words[i]) \cup HostMatches(words[i]) :
                                i \in 1 .. Len(words)}
    IN  IF \E i \in 1 .. Len(words) : Lower(words[i]) = "<target_in_scope>"
        THEN {}
        ELSE {NormalizeTarget(c) : c \in candidates} \ ({""} \cup normalized_scope)

\* the value of the loop variable `action` before the loop has bound it
NoAction ==
    [title |-> "", rationale |-> [text |-> "", reasons |-> << >>], command |-> NoCommand,
     done_criteria |-> ""]

\* sanitize_actions(actions, target_scope) is called; action, command and
\* reasons are the loop's variables of those names
SanitizeCall(actions, target_scope) ==
    [fn |-> "sanitize_actions", pc |-> "normalize", actions |-> actions,
     target_scope |-> target_scope, action |-> NoAction, command |-> NoCommand,
     reasons |-> << >>, sanitized |-> << >>]

\* NextAction with a reasons list that is shared by all turns of the loop
NextActionSharedReasons(c, sanitized) ==
    IF Len(sanitized) = Len(c.actions)
    THEN [c EXCEPT !.pc = "done", !.sanitized = sanitized]
    ELSE [c EXCEPT !.pc = "blocklist", !.sanitized = sanitized,
                   !.action = c.actions[Len(sanitized) + 1],
                   !.command = c.actions[Len(sanitized) + 1].command]

\* `for action in actions`: the loop ends and sanitized is returned, or the
\* next action is bound and its command and an empty reasons list with it
NextAction(c, sanitized) ==
    IF Len(sanitized) = Len(c.actions)
    THEN [c EXCEPT !.pc = "done", !.sanitized = sanitized]
    ELSE [c EXCEPT !.pc = "blocklist", !.sanitized = sanitized,
                   !.action = c.actions[Len(sanitized) + 1],
                   !.command = c.actions[Len(sanitized) + 1].command,
                   !.reasons = << >>]

\* sanitize_actions([action], target_scope) with one proposed action
InitPolicy ==
    /\ max_events = MaxCap
    /\ StoreDir({}, 0)
    /\ call \in {SanitizeCall(<<a>>, sc) : a \in Actions, sc \in TargetScopes}

\* normalized_scope is built, which raises ValueError on a malformed URL,
\* and the loop is entered
NormalizeScope ==
    /\ call.fn = "sanitize_actions" /\ call.pc = "normalize"
    /\ IF \E i \in 1 .. Len(call.target_scope) : NormalizeRaises(call.target_scope[i])
       THEN call' = [call EXCEPT !.pc = "raised"]
       ELSE call' = NextAction(call, << >>)
    /\ StoreSame

\* CheckBlocklist that records the reason and leaves the command in place
CheckBlocklistKeepsCommand ==
    /\ call.fn = "sanitize_actions" /\ call.pc = "blocklist"
    /\ IF /\ HasCommand(call.command)
          /\ \E pattern \in BlocklistPatterns : ContainsPattern(call.command.words, pattern)
       THEN call' = [call EXCEPT !.pc = "allowlist",
                                 !.reasons = @ \o <<[kind |-> "blocklist"]>>]
       ELSE call' = [call EXCEPT !.pc = "allowlist"]
    /\ StoreSame

\* the blocklist test
CheckBlocklist ==
    /\ call.fn = "sanitize_actions" /\ call.pc = "blocklist"
    /\ IF /\ HasCommand(call.command)
          /\ \E pattern \in BlocklistPatterns : ContainsPattern(call.command.words, pattern)
       THEN call' = [call EXCEPT !.pc = "allowlist", !.command = NoCommand,
                                 !.reasons = @ \o <<[kind |-> "blocklist"]>>]
       ELSE call' = [call EXCEPT !.pc = "allowlist"]
    /\ StoreSame

\* the allowlist test
CheckAllowlist ==
    /\ call.fn = "sanitize_actions" /\ call.pc = "allowlist"
    /\ IF /\ HasCommand(call.command)
          /\ ExtractTool(call.command.words) # ""
          /\ ExtractTool(call.command.words) \notin AllowedTools
       THEN call' = [call EXCEPT !.pc = "scope", !.command = NoCommand,
                                 !.reasons = @ \o <<[kind |-> "allowlist",
                                                     tool |-> ExtractTool(call.command.words)]>>]
       ELSE call' = [call EXCEPT !.pc = "scope"]
    /\ StoreSame

\* the scope test
CheckScope ==
    /\ call.fn = "sanitize_actions" /\ call.pc = "scope"
    /\ LET normalized_scope == NormalizedScope(call.target_scope) IN
       IF /\ HasCommand(call.command) /\ normalized_scope # {}
          /\ FindOutOfScopeTargets(call.command.words, normalized_scope) # {}
       THEN call' = [call EXCEPT !.pc = "rebuild", !.command = NoCommand,
                                 !.reasons = @ \o
                                    <<[kind |-> "out_of_scope",
                                       targets |-> FindOutOfScopeTargets(call.command.words,
                                                                         normalized_scope)]>>]
       ELSE call' = [call EXCEPT !.pc = "rebuild"]
    /\ StoreSame

\* the ActionItem that is appended to sanitized; then the next turn of the
\* loop, or the return
RebuildAction ==
    /\ call.fn = "sanitize_actions" /\ call.pc = "rebuild"
    /\ call' = NextAction(call,
                          Append(call.sanitized,
                                 [call.action EXCEPT !.rationale.reasons = call.reasons,
                                                     !.command = call.command]))
    /\ StoreSame

NextPolicy ==
    NormalizeScope \/ CheckBlocklist \/ CheckAllowlist \/ CheckScope \/ RebuildAction

SpecPolicy == InitPolicy /\ [][NextPolicy]_vars

\* most actions in a proposed list
MaxActions == 3

\* the ActionItems a list is made of: one without a command, two scans, a
\* tool that is not allowed and a blocklisted command
ProposedActions ==
    {[title |-> "Take notes", rationale |-> [text |-> "notes", reasons |-> << >>],
      command |-> NoCommand, done_criteria |-> "noted"],
     [title |-> "Scan target", rationale |-> [text |-> "test", reasons |-> << >>],
      command |-> Command(<<"nmap", "-sV", "-Pn", "10.10.10.99">>), done_criteria |-> "done"],
     [title |-> "Scan host", rationale |-> [text |-> "test", reasons |-> << >>],
      command |-> Command(<<"nmap", "10.10.10.25">>), done_criteria |-> "ports listed"],
     [title |-> "Try shell", rationale |-> [text |-> "test", reasons |-> << >>],
      command |-> Command(<<"msfconsole">>), done_criteria |-> "done"],
     [title |-> "Clean up", rationale |-> [text |-> "tidy", reasons |-> << >>],
      command |-> Command(<<"rm", "-rf">>), done_criteria |-> "clean"]}

\* sanitize_actions on a list of up to MaxActions actions, with a scope that
\* may hold a malformed URL
InitSanitize ==
    /\ max_events = MaxCap
    /\ StoreDir({}, 0)
    /\ call \in {SanitizeCall(as, sc) :
                    as \in UNION {[1 .. n -> ProposedActions] : n \in 0 .. MaxActions},
                    sc \in TargetScopes \cup MalformedScopes}

SpecSanitize == InitSanitize /\ [][NextPolicy]_vars

----------------------------------------------------------------------------
(* Session ids: _SAFE_ID_RE and _validate_session_id *)

\* number of characters written out in a session id
MaxIdChars == 3

\* {0,127}: the pattern lets up to 127 characters follow the first
SafeIdRest == 127

\* characters a caller may send: a letter, a digit, '-', '_', a newline, '/', '.'
IdChars == {"a", "7", "-", "_", "\n", "/", "."}

\* a session id is the characters `chars` with `pad` letters put in after the
\* first one, so that ids around the length limit stay small
SessionIds ==
    {[chars |-> c, pad |-> n] :
        c \in UNION {[1 .. k -> IdChars] : k \in 0 .. MaxIdChars},
        n \in {0, SafeIdRest - 2, SafeIdRest - 1}}

\* the string of a session id
IdString(id) ==
    IF Len(id.chars) = 0 THEN << >>
    ELSE <<id.chars[1]>> \o [i \in 1 .. id.pad |-> "a"] \o Tail(id.chars)

\* [A-Za-z0-9]
Alnum(c) == c \in {"a", "7"}
\* [A-Za-z0-9_-]
IdChar(c) == Alnum(c) \/ c \in {"-", "_"}

\* _SAFE_ID_RE.match(session_id) with ^[A-Za-z0-9][A-Za-z0-9_-]{0,127}$ :
\* the first character, then k - 1 <= 127 characters of the class, then `$`,
\* which Python's re matches at the end of the string and also just before a
\* newline that ends the string
SafeIdMatch(str) ==
    /\ Len(str) >= 1
    /\ Alnum(str[1])
    /\ \E k \in 1 .. Len(str) :
        /\ k - 1 <= SafeIdRest
        /\ \A i \in 2 .. k : IdChar(str[i])
        /\ \/ k = Len(str)
           \/ k = Len(str) - 1 /\ str[Len(str)] = "\n"

\* the store operations that take a session id from the caller
StoreOps == {"get_session", "update_session", "save_session", "delete_session"}

\* what the operation does to the files of a session id that has passed
\* validation, in a store directory that holds no session
StorageAccess(fn) ==
    CASE fn = "get_session"    -> {"record looked up"}
      [] fn = "update_session" -> {"lock file created", "record looked up"}
      [] fn = "save_session"   -> {"lock file created", "temp file written", "record written"}
      [] fn = "delete_session" -> {"record looked up"}

\* what the operation gives for it
StorageResult(fn) ==
    CASE fn = "get_session"    -> "None"
      [] fn = "update_session" -> "KeyError"
      [] fn = "save_session"   -> "ok"
      [] fn = "delete_session" -> "False"

\* a caller hands a session id to a store operation
InitIds ==
    /\ max_events = MaxCap
    /\ StoreDir({}, 0)
    /\ call \in {[fn |-> f, session_id |-> id, pc |-> "validate", res |-> "none",
                  touched |-> {}] : f \in StoreOps, id \in SessionIds}

\* self._validate_session_id(session_id), the first statement of each operation
ValidateSessionId ==
    /\ call.pc = "validate"
    /\ IF SafeIdMatch(IdString(call.session_id))
       THEN call' = [call EXCEPT !.pc = "storage"]
       ELSE call' = [call EXCEPT !.pc = "done", !.res = "ValueError"]
    /\ StoreSame

\* the rest of the operation
AccessStorage ==
    /\ call.pc = "storage"
    /\ call' = [call EXCEPT !.pc = "done", !.res = StorageResult(call.fn),
                            !.touched = StorageAccess(call.fn)]
    /\ StoreSame

NextIds == ValidateSessionId \/ AccessStorage

SpecIds == InitIds /\ [][NextIds]_vars

\* the pattern as it is described: an alphanumeric first character followed by
\* alphanumerics, '-' or '_', at most 128 characters
DescribedSafeId(str) ==
    /\ Len(str) >= 1
    /\ Len(str) <= SafeIdRest + 1
    /\ Alnum(str[1])
    /\ \A i \in 2 .. Len(str) : IdChar(str[i])

\* C12: get_session, update_session, save_session and delete_session reject a
\* session id that does not match the safe-identifier pattern with an error
\* before any storage access: nothing is read, created, modified or removed
\* for that id.
C12_InvalidIdRejectedFirst ==
    call.fn \in StoreOps /\ ~DescribedSafeId(IdString(call.session_id)) =>
        /\ call.touched = {}
        /\ call.pc = "done" => call.res = "ValueError"

----------------------------------------------------------------------------
(* C13 *)

\* C13: get_session on a session id whose stored record is present but not
\* parseable as a session is surfaced as not-found (None from the store,
\* KeyError from the service, 404 from the route), not as any other error.
C13_CorruptRecordIsNotFound ==
    \A t \in Threads :
        th[t].pc = "done" /\ rec[th[t].sid] = Partial =>
            /\ th[t].op = "get" /\ th[t].sg.job = "none" => th[t].res = "None"
            /\ th[t].op = "service_get" =>
                  th[t].res = "KeyError" /\ RouteStatus(th[t].res) = "404"

----------------------------------------------------------------------------
(* C14 *)

\* the stored readable sessions whose tenant_id and user_id equal the filters
\* that are given
Matching(request) ==
    {SessionOf(rec[s]) : s \in {x \in Ids :
        /\ rec[x].st = "full"
        /\ request.tenant_id.given => rec[x].tenant_id = request.tenant_id.value
        /\ request.user_id.given => rec[x].user_id = request.user_id.value}}

\* `ret` is the sessions of `all` sorted by updated_at descending and then
\* truncated to `limit`
SortedAndTruncated(ret, all, limit) ==
    /\ Len(ret) = IF Cardinality(all) < limit THEN Cardinality(all) ELSE limit
    /\ \A i \in 1 .. Len(ret) : ret[i] \in all
    /\ \A i, j \in 1 .. Len(ret) :
        /\ i # j => ret[i] # ret[j]
        /\ i < j => ret[i].updated_at >= ret[j].updated_at
    /\ \A x \in all :
        (\A i \in 1 .. Len(ret) : ret[i] # x) =>
            \A i \in 1 .. Len(ret) : ret[i].updated_at >= x.updated_at

\* C14: list_sessions(tenant_id, user_id, limit) returns exactly the stored
\* readable sessions whose tenant_id and user_id equal the given filters (an
\* absent filter matches all), sorted by updated_at descending and then
\* truncated to limit; a corrupt or unreadable record is skipped and never
\* makes the listing fail.
C14_ListFiltersSortsTruncates ==
    \A t \in Threads :
        th[t].op = "list" /\ th[t].pc = "done" =>
            /\ th[t].res = "ok"
            /\ SortedAndTruncated(th[t].ret, Matching(th[t].req), th[t].req.limit)

----------------------------------------------------------------------------
(* C15 *)

\* the thread has made two suggest calls in a row on a stored session with
\* the same request, and both saw the same state (equal fingerprints)
SuggestedTwice(t) ==
    /\ th[t].op = "suggest" /\ th[t].pc = "done"
    /\ th[t].sg.prev # NoPrev
    /\ th[t].sg.prev.req = th[t].req
    /\ th[t].sg.lookup # "none" /\ th[t].sg.prev.lookup # "none"
    /\ th[t].sg.prev.fingerprint = th[t].sg.fingerprint

\* C15: calling suggest twice on the same session with the same request and
\* no state change in between returns identical payloads, and the second call
\* is served from the stored cached suggestion without running the pipeline.
C15_SuggestIdempotent ==
    \A t \in Threads :
        SuggestedTwice(t) =>
            /\ th[t].sg.prev.res = "ok" /\ th[t].res = "ok"
            /\ th[t].ret = th[t].sg.prev.ret
            /\ th[t].sg.lookup = "hit"

----------------------------------------------------------------------------
(* C17, C18, C19 *)

\* the step in which suggest returns or raises after it has read the session
\* and found no usable cached suggestion
PipelineEnds(t) ==
    /\ th[t].sg.job = "suggest" /\ th'[t].sg.job = "none" /\ th'[t].pc = "done"
    /\ th'[t].sg.lookup \in {"miss", "broken"}

\* C17, as a step: when suggest ends and events were published since it read
\* the session, it has returned, the record carries its suggestion, and the
\* record holds the published events
WriteBackKeepsEvents ==
    \A t \in Threads :
        /\ PipelineEnds(t)
        /\ Len(log[th[t].sid]) > th'[t].sg.seen
        /\ rec[th[t].sid].st = "full"
        => /\ th'[t].res = "ok"
           /\ rec'[th[t].sid].st = "full"
           /\ rec'[th[t].sid].cached_suggest.fingerprint = th'[t].sg.fingerprint
           /\ ValidPayload(rec'[th[t].sid].cached_suggest.payload)
           /\ Len(log[th[t].sid]) <= max_events =>
                 rec'[th[t].sid].events = log[th[t].sid]

PersistFailureIsSwallowed ==
    \A t \in Threads :
        /\ PipelineEnds(t)
        /\ rec[th[t].sid].st = "nofile"
        => /\ th'[t].res = "ok"
           /\ th'[t].ret # << >>
           /\ rec'[th[t].sid].st = "nofile"

\* C18: a failure to persist the suggestion, for example because the session
\* was deleted between suggest's read and its write-back, never fails the
\* request: suggest still returns the computed response, and the failed
\* write-back does not create a session record.
C18_PersistFailureIsSwallowed == [][PersistFailureIsSwallowed]_vars

\* C19: when the stored cached suggestion has the freshly computed
\* fingerprint but a payload that cannot be deserialized, suggest treats it as
\* a cache miss: it runs the pipeline, returns that result without error, and
\* replaces the broken cache entry.
C19_BrokenCacheIsMiss ==
    \A t \in Threads :
        th[t].op = "suggest" /\ th[t].pc = "done" /\ th[t].sg.lookup = "broken"
        => /\ th[t].res = "ok"
           /\ th[t].ret # << >>
           /\ rec[th[t].sid].st = "full" /\ ~deleted[th[t].sid].ever
                => ValidPayload(rec[th[t].sid].cached_suggest.payload)

----------------------------------------------------------------------------
(* C16 *)

\* the inputs the fingerprint is said to be a function of
StatedInputs(in) ==
    <<in.session.session_id, in.session.objective, in.session.target_scope,
      in.session.policy_id, in.session.current_phase,
      LastN(in.session.events,
            IF Len(in.session.events) < FingerprintEvents THEN Len(in.session.events)
            ELSE FingerprintEvents),
      in.request.memory_mode, in.request.history_window, in.request.phase_override,
      in.request.rag_focus, in.version>>

\* C16: the suggest fingerprint is a deterministic function of its inputs:
\* identical session state (session id, objective, target scope, policy id,
\* current phase, last 25 events), request parameters (memory mode, history
\* window, phase override, retrieval focus) and index version give the identical
\* fingerprint, and a change of any of them (one newly appended event, a
\* different focus, a new index version) gives a different one.
C16_FingerprintDeterminedByInputs ==
    call.fn = "_compute_suggest_fingerprint" /\ call.pc = "done" =>
        /\ (call.fx = call.fy) <=> (StatedInputs(call.x) = StatedInputs(call.y))
        /\ call.changes \cap {"append_event", "rag_focus", "index_version"} # {}
              => call.fx # call.fy
        /\ call.changes \subseteq OtherChanges \ {"oldest_event"} => call.fx = call.fy

\* C16 witness: the fingerprints of a session whose last 25 events are not
\* all its events and of the same session with one more event differ
C16_Witness ==
    /\ call.fn = "_compute_suggest_fingerprint" /\ call.pc = "done"
    /\ call.changes = {"append_event"}
    /\ Len(call.x.session.events) > FingerprintEvents
    /\ call.fx # call.fy

----------------------------------------------------------------------------
(* C20 *)

\* the targets the proposed command refers to that are not in target_scope
OutOfScopeReferences ==
    {NormalizeTarget(c) :
        c \in UNION {IpMatches(call.action.command.words[i])
                        \cup HostMatches(call.action.command.words[i]) :
                     i \in 1 .. Len(call.action.command.words)}}
        \ NormalizedScope(call.target_scope)

\* the sanitized action has no command and its rationale names every one of
\* those targets as out of session scope
NulledWithMarker ==
    /\ call.sanitized[1].command = NoCommand
    /\ \E i \in 1 .. Len(call.sanitized[1].rationale.reasons) :
        LET reason == call.sanitized[1].rationale.reasons[i] IN
        reason.kind = "out_of_scope" /\ OutOfScopeReferences \subseteq reason.targets

ScopeTested ==
    /\ NormalizedScope(call.target_scope) # {}
    /\ \A pattern \in BlocklistPatterns :
        ~ContainsPattern(call.action.command.words, pattern)
    /\ ExtractTool(call.action.command.words) \in AllowedTools
    /\ \A i \in 1 .. Len(call.action.command.words) :
        Lower(call.action.command.words[i]) # "<target_in_scope>"

----------------------------------------------------------------------------
(* C11 *)

UpdateFamily == {"update", "append_events", "append_note", "suggest"}

\* C11, state part: an update_session, append_events, append_note or suggest
\* that has ended while the session id has no record has raised KeyError
NotFoundRaised ==
    \A t \in Threads :
        th[t].pc = "done" /\ th[t].op \in UpdateFamily /\ rec[th[t].sid].st = "nofile"
            => th[t].res = "KeyError"

\* C11, step part: a record comes into being only by create_session, and a
\* thread that found no record at its existence check writes no file
NotFoundPersistsNothing ==
    /\ \A s \in Ids :
        rec[s].st = "nofile" /\ rec'[s].st # "nofile" =>
            \E t \in Threads : th[t].op = "create" /\ th[t].sid = s
    /\ \A t \in Threads :
        th[t].pc = "u_exists" /\ rec[th[t].sid].st = "nofile" /\ th'[t] # th[t] =>
            /\ th'[t].pc = "unlock" /\ th'[t].res = "KeyError"
            /\ UNCHANGED <<rec, tmp>>

\* C11: update_session, append_events, append_note and suggest on a
\* well-formed session id that has no stored record fail with KeyError and
\* leave the store without a record for that id; the mutator's effect is
\* never persisted.
C11_NotFoundLeavesNoRecord == []NotFoundRaised /\ [][NotFoundPersistsNothing]_vars

\* C11 witness: a suggest carrying a user message has ended with KeyError on a
\* session id that has no record (its append_note found none)
C11_Witness ==
    \E t \in Threads :
        /\ th[t].op = "suggest" /\ th[t].pc = "done" /\ th[t].res = "KeyError"
        /\ th[t].req.user_message = "msg"
        /\ rec[th[t].sid].st = "nofile" /\ tmp[th[t].sid].st = "nofile"

----------------------------------------------------------------------------
(* C21 *)

\* the sanitized action has no command and its rationale carries the
\* allowlist marker
NulledByAllowlist ==
    /\ call.sanitized[1].command = NoCommand
    /\ \E i \in 1 .. Len(call.sanitized[1].rationale.reasons) :
        call.sanitized[1].rationale.reasons[i].kind = "allowlist"

\* C21 as stated: for all actions whose command's first token is outside the
\* allowed-tool set, the sanitized command is null and the rationale
\* contains the allowlist marker.
C21_DisallowedToolAlwaysNulled ==
    /\ call.fn = "sanitize_actions" /\ call.pc = "done"
    /\ HasCommand(call.action.command)
    /\ call.action.command.words[1] \notin AllowedTools
    => NulledByAllowlist

\* C21 amended: for all actions whose command contains no blocklisted
\* pattern and whose first token, lowercased, is outside the allowed-tool
\* set, the sanitized command is null and the rationale contains the
\* allowlist marker.
C21_DisallowedToolNulledWhenTested ==
    /\ call.fn = "sanitize_actions" /\ call.pc = "done"
    /\ HasCommand(call.action.command)
    /\ \A pattern \in BlocklistPatterns :
        ~ContainsPattern(call.action.command.words, pattern)
    /\ Lower(call.action.command.words[1]) \notin AllowedTools
    => NulledByAllowlist

\* C21 witness: "rm 10.10.10.25" in scope ["10.10.10.25"] has given no
\* command and a rationale saying that rm is not in the allowlist
C21_Witness ==
    /\ call.fn = "sanitize_actions" /\ call.pc = "done"
    /\ call.target_scope = <<"10.10.10.25">>
    /\ call.action.command = Command(<<"rm", "10.10.10.25">>)
    /\ call.sanitized[1].command = NoCommand
    /\ call.sanitized[1].rationale.reasons = <<[kind |-> "allowlist", tool |-> "rm"]>>

----------------------------------------------------------------------------
(* C22 *)

\* C22: sanitize_actions returns a list of the same length and in the same
\* order as its input for every input list and every target_scope, never
\* raises, and leaves its input actions unmodified; output action i has the
\* title and done_criteria of input action i.
C22_SameLengthAndOrderNeverRaises ==
    call.fn = "sanitize_actions" /\ call.pc \in {"done", "raised"} =>
        /\ call.pc = "done"
        /\ Len(call.sanitized) = Len(call.actions)
        /\ \A i \in 1 .. Len(call.actions) :
            /\ call.sanitized[i].title = call.actions[i].title
            /\ call.sanitized[i].done_criteria = call.actions[i].done_criteria
            /\ call.actions[i] \in ProposedActions

----------------------------------------------------------------------------
(* C23 *)

\* C23: an action that carries no command is returned by sanitize_actions
\* unchanged (same title, rationale, done_criteria and null command),
\* whatever the target scope is and whatever the other actions of the list
\* are.
C23_NoCommandUnchanged ==
    call.fn = "sanitize_actions" =>
        \A i \in 1 .. Len(call.sanitized) :
            call.actions[i].command = NoCommand => call.sanitized[i] = call.actions[i]

\* C23 witness: a list whose first action is stripped by a policy and whose
\* second action carries no command has been sanitized, and the second
\* action has come back as it was
C23_Witness ==
    /\ call.fn = "sanitize_actions" /\ call.pc = "done"
    /\ Len(call.actions) >= 2
    /\ call.actions[1].command # NoCommand /\ call.sanitized[1].command = NoCommand
    /\ call.actions[2].command = NoCommand
    /\ call.sanitized[2] = call.actions[2]

----------------------------------------------------------------------------
(* core/phases.py: detect_phase and infer_missing_artifacts *)

\* most filler events between the first and the last event of a history
MaxPad == 10

\* events[-10:] and events[-20:]
NoteWindow == 10
RecentWindow == 20

PHASES == <<"recon", "enumeration", "hypothesis", "attempt", "post_check", "report">>

PHASE_REQUIRED_ARTIFACTS(phase) ==
    CASE phase = "recon"       -> <<"service_inventory">>
      [] phase = "enumeration" -> <<"service_inventory", "deep_service_findings">>
      [] phase = "hypothesis"  -> <<"ranked_hypotheses">>
      [] phase = "attempt"     -> <<"attempt_results">>
      [] phase = "post_check"  -> <<"impact_validation">>
      [] phase = "report"      -> <<"timeline_notes", "evidence_references">>
      [] OTHER                 -> << >>

\* a keyword or pattern is the words it is made of
PHASE_PATTERNS(phase) ==
    CASE phase = "recon"       ->
            {<<"nmap">>, <<"masscan">>, <<"naabu">>, <<"arp-scan">>, <<"netdiscover">>}
      [] phase = "enumeration" ->
            {<<"gobuster">>, <<"ffuf">>, <<"nikto">>, <<"enum4linux">>, <<"dirsearch">>}
      [] phase = "hypothesis"  ->
            {<<"hypothesis">>, <<"possible", "weak", "point">>, <<"candidate", "issue">>}
      [] phase = "attempt"     ->
            {<<"sqlmap">>, <<"hydra">>, <<"exploit">>, <<"metasploit">>, <<"poc">>}
      [] phase = "post_check"  ->
            {<<"whoami">>, <<"id">>, <<"hostname">>, <<"proof">>, <<"verify", "impact">>}
      [] phase = "report"      ->
            {<<"report">>, <<"summary">>, <<"timeline">>, <<"evidence">>}

REPORT_KEYWORDS ==
    {<<"report">>, <<"template">>, <<"timeline">>, <<"findings">>, <<"final", "notes">>}
RECON_KEYWORDS == {<<"recon">>, <<"reconnaissance">>, <<"inventory">>, <<"checklist">>}

\* `in` on strings, for the words events are written with: the keyword
\* words that are substrings of a lowercase word
Substrings(word) ==
    CASE word = "evidence"       -> {"evidence", "id"}
      [] word = "reconnaissance" -> {"recon", "reconnaissance"}
      [] word = "reporting"      -> {"report"}
      [] word = "02_reporting_template.md" -> {"report", "template"}
      [] word = "01_phase_checklist.md"    -> {"checklist"}
      [] word \in {"gobuster", "nmap", "report", "template", "recon", "checklist", "final",
                   "notes", "hydra", "whoami", "hypothesis", "timeline", "impact"}
                                 -> {word}
      [] OTHER                   -> {}

\* a string is its words; as an element of " ".join it is at least the
\* empty word
Words(string) == IF string = << >> THEN <<"">> ELSE string

\* " ".join(strings).lower()
RECURSIVE JoinLower(_)
JoinLower(strings) ==
    IF strings = << >> THEN << >>
    ELSE [i \in 1 .. Len(Words(Head(strings))) |-> Lower(Words(Head(strings))[i])]
             \o JoinLower(Tail(strings))

\* keyword in text
KeywordIn(keyword, text) ==
    \E i \in 1 .. Len(text) - Len(keyword) + 1 :
        \A j \in 1 .. Len(keyword) : keyword[j] \in Substrings(text[i + j - 1])

\* an ActivityEvent: its type and the payload keys that are read; a key that
\* is absent reads as the empty string
Event(event_type, command, message, summary, evidence_ref) ==
    [event_type |-> event_type,
     payload |-> [command |-> command, message |-> message, summary |-> summary,
                  hypothesis |-> FALSE, evidence_ref |-> evidence_ref]]

CurlProbe == Event("command", <<"curl", "-I", "http://10.10.10.25">>, << >>, << >>, FALSE)

\* the events histories are made of
EventPool ==
    {CurlProbe,
     Event("command", <<"gobuster", "dir">>, << >>, << >>, FALSE),
     Event("command", <<"whatweb", "http://10.10.10.25">>, << >>, << >>, FALSE),
     Event("command", <<"nmap", "-sV", "10.10.10.25">>, << >>, << >>, FALSE),
     Event("command", <<"hydra">>, << >>, << >>, FALSE),
     Event("command", <<"whoami">>, << >>, << >>, FALSE),
     Event("http", << >>, << >>, <<"Report", "evidence">>, FALSE),
     Event("system", << >>, <<"need", "report", "template">>, << >>, FALSE),
     Event("note", << >>, <<"need", "report", "template">>, << >>, FALSE),
     Event("note", << >>, <<"need", "recon", "checklist">>, << >>, FALSE),
     Event("note", << >>, << >>, << >>, FALSE),
     Event("note", << >>, <<"final">>, << >>, FALSE),
     Event("note", << >>, <<"notes">>, << >>, TRUE)}

\* the histories: none, one event, and two events with up to MaxPad curl
\* probes between them
Histories ==
    {<< >>} \cup {<<a>> : a \in EventPool}
        \cup {<<a>> \o [i \in 1 .. k |-> CurlProbe] \o <<b>> :
                a \in EventPool, b \in EventPool, k \in 0 .. MaxPad}

\* a confidence, as a fraction
Conf(num, den) == [num |-> num, den |-> den]
AtLeast(c, d) == c.num * d.den >= d.num * c.den

\* the messages of the note events among events[-10:], joined and lowered
NoteText(events) ==
    LET recent == TailSlice(events, NoteWindow)
        notes == SelectSeq(recent, LAMBDA event : event.event_type = "note")
    IN  JoinLower([i \in 1 .. Len(notes) |-> notes[i].payload.message])

\* command, message and summary of events[-20:], joined and lowered
RecentText(events) ==
    LET recent == TailSlice(events, RecentWindow)
    IN  JoinLower([i \in 1 .. 3 * Len(recent) |->
                    LET payload == recent[(i + 2) \div 3].payload IN
                    CASE i % 3 = 1 -> payload.command
                      [] i % 3 = 2 -> payload.message
                      [] OTHER     -> payload.summary])

\* match_counts, as the counts in the order of the table; a phase that
\* matched no pattern has no entry, which reads as 0
MatchCounts(text) ==
    [i \in 1 .. Len(PHASES) |->
        Cardinality({pattern \in PHASE_PATTERNS(PHASES[i]) : KeywordIn(pattern, text)})]

\* MostCommon that takes the last phase of the table among those with the
\* highest count
MostCommonLastOfTies(match_counts) ==
    LET best == CHOOSE i \in 1 .. Len(PHASES) :
                    /\ \A j \in 1 .. Len(PHASES) : match_counts[j] <= match_counts[i]
                    /\ \A j \in i + 1 .. Len(PHASES) : match_counts[j] < match_counts[i]
    IN  best

\* match_counts.most_common(1)[0][0]: the first phase of the table among
\* those with the highest count
MostCommon(match_counts) ==
    LET best == CHOOSE i \in 1 .. Len(PHASES) :
                    /\ \A j \in 1 .. Len(PHASES) : match_counts[j] <= match_counts[i]
                    /\ \A j \in 1 .. i - 1 : match_counts[j] < match_counts[i]
    IN  best

\* sum(match_counts.values())
RECURSIVE SumCounts(_)
SumCounts(match_counts) ==
    IF match_counts = << >> THEN 0 ELSE Head(match_counts) + SumCounts(Tail(match_counts))

\* min(0.95, 0.5 + (matches / max(total_matches, 1)) * 0.5)
Confidence(matches, total_matches) ==
    LET total == IF total_matches > 1 THEN total_matches ELSE 1
        value == Conf(total + matches, 2 * total)
    IN  IF AtLeast(value, Conf(95, 100)) THEN Conf(95, 100) ELSE value

\* DetectFromNotes that looks for the recon keywords first
DetectFromNotesReconFirst(note_text) ==
    IF \E keyword \in RECON_KEYWORDS : KeywordIn(keyword, note_text)
    THEN [phase |-> "recon", confidence |-> Conf(85, 100)]
    ELSE IF \E keyword \in REPORT_KEYWORDS : KeywordIn(keyword, note_text)
    THEN [phase |-> "report", confidence |-> Conf(90, 100)]
    ELSE [phase |-> "none"]

\* the return taken on note_text, if one is
DetectFromNotes(note_text) ==
    IF \E keyword \in REPORT_KEYWORDS : KeywordIn(keyword, note_text)
    THEN [phase |-> "report", confidence |-> Conf(90, 100)]
    ELSE IF \E keyword \in RECON_KEYWORDS : KeywordIn(keyword, note_text)
    THEN [phase |-> "recon", confidence |-> Conf(85, 100)]
    ELSE [phase |-> "none"]

\* DetectFromPatterns that answers recon when nothing matched
DetectFromPatternsDefaultsToRecon(match_counts, current_phase) ==
    IF SumCounts(match_counts) = 0
    THEN [phase |-> "recon", confidence |-> Conf(45, 100)]
    ELSE [phase |-> PHASES[MostCommon(match_counts)],
          confidence |-> Confidence(match_counts[MostCommon(match_counts)],
                                    SumCounts(match_counts))]

\* the return taken on match_counts
DetectFromPatterns(match_counts, current_phase) ==
    IF SumCounts(match_counts) = 0
    THEN [phase |-> current_phase, confidence |-> Conf(45, 100)]
    ELSE [phase |-> PHASES[MostCommon(match_counts)],
          confidence |-> Confidence(match_counts[MostCommon(match_counts)],
                                    SumCounts(match_counts))]

\* InferArtifacts over events[-10:] only
RECURSIVE InferArtifactsWindow(_)
InferArtifactsWindow(events) ==
    IF Len(events) > NoteWindow THEN InferArtifactsWindow(Tail(events))
    ELSE IF events = << >> THEN {}
    ELSE LET payload == Head(events).payload
             command == JoinLower(<<payload.command>>)
             message == JoinLower(<<payload.message>>)
             In(tokens, text) == \E token \in tokens : KeywordIn(<<token>>, text)
         IN  (IF In({"nmap", "masscan", "naabu"}, command)
              THEN {"service_inventory"} ELSE {})
             \cup (IF In({"gobuster", "ffuf", "nikto", "enum4linux"}, command)
                   THEN {"deep_service_findings"} ELSE {})
             \cup (IF In({"hypothesis"}, message) \/ payload.hypothesis
                   THEN {"ranked_hypotheses"} ELSE {})
             \cup (IF In({"sqlmap", "hydra", "exploit", "metasploit"}, command)
                   THEN {"attempt_results"} ELSE {})
             \cup (IF In({"whoami", "id"}, command) \/ In({"impact"}, message)
                   THEN {"impact_validation"} ELSE {})
             \cup (IF Head(events).event_type = "note"
                   THEN {"timeline_notes"}
                            \cup (IF payload.evidence_ref THEN {"evidence_references"} ELSE {})
                   ELSE {})
             \cup InferArtifactsWindow(Tail(events))

\* infer_artifacts
RECURSIVE InferArtifacts(_)
InferArtifacts(events) ==
    IF events = << >> THEN {}
    ELSE LET payload == Head(events).payload
             command == JoinLower(<<payload.command>>)
             message == JoinLower(<<payload.message>>)
             In(tokens, text) == \E token \in tokens : KeywordIn(<<token>>, text)
         IN  (IF In({"nmap", "masscan", "naabu"}, command)
              THEN {"service_inventory"} ELSE {})
             \cup (IF In({"gobuster", "ffuf", "nikto", "enum4linux"}, command)
                   THEN {"deep_service_findings"} ELSE {})
             \cup (IF In({"hypothesis"}, message) \/ payload.hypothesis
                   THEN {"ranked_hypotheses"} ELSE {})
             \cup (IF In({"sqlmap", "hydra", "exploit", "metasploit"}, command)
                   THEN {"attempt_results"} ELSE {})
             \cup (IF In({"whoami", "id"}, command) \/ In({"impact"}, message)
                   THEN {"impact_validation"} ELSE {})
             \cup (IF Head(events).event_type = "note"
                   THEN {"timeline_notes"}
                            \cup (IF payload.evidence_ref THEN {"evidence_references"} ELSE {})
                   ELSE {})
             \cup InferArtifacts(Tail(events))

\* detect_phase(events, current_phase) or infer_missing_artifacts(events,
\* phase) is called
InitPhases ==
    /\ max_events = MaxCap
    /\ StoreDir({}, 0)
    /\ call \in {[fn |-> fn, pc |-> "start", events |-> events, phase |-> PHASES[i],
                  present |-> {}, match_counts |-> << >>, res |-> [phase |-> "none"]] :
                    fn \in {"detect_phase", "infer_missing_artifacts"},
                    events \in Histories, i \in 1 .. Len(PHASES)}

\* detect_phase up to the returns on the note text
DetectNotes ==
    /\ call.fn = "detect_phase" /\ call.pc = "start"
    /\ IF call.events = << >>
       THEN call' = [call EXCEPT !.pc = "done",
                                 !.res = [phase |-> call.phase, confidence |-> Conf(40, 100)]]
       ELSE LET note_text == NoteText(call.events) IN
            IF note_text # << >> /\ DetectFromNotes(note_text).phase # "none"
            THEN call' = [call EXCEPT !.pc = "done", !.res = DetectFromNotes(note_text)]
            ELSE call' = [call EXCEPT !.pc = "patterns"]
    /\ StoreSame

\* recent_text, text and match_counts
CountMatches ==
    /\ call.fn = "detect_phase" /\ call.pc = "patterns"
    /\ LET text == RecentText(call.events)
           counts == MatchCounts(text)
       IN  call' = [call EXCEPT !.pc = "decide",
                                !.match_counts = [i \in 1 .. Len(PHASES) |-> counts[i]]]
    /\ StoreSame

\* detect_phase from `if not match_counts` to its end
DetectPatterns ==
    /\ call.fn = "detect_phase" /\ call.pc = "decide"
    /\ call' = [call EXCEPT !.pc = "done",
                            !.res = DetectFromPatterns(call.match_counts, call.phase)]
    /\ StoreSame

\* present = infer_artifacts(events)
InferPresent ==
    /\ call.fn = "infer_missing_artifacts" /\ call.pc = "start"
    /\ call' = [call EXCEPT !.pc = "required", !.present = InferArtifacts(call.events)]
    /\ StoreSame

\* the required artifacts that are not present, in the order of the table
MissingRequired ==
    /\ call.fn = "infer_missing_artifacts" /\ call.pc = "required"
    /\ call' = [call EXCEPT !.pc = "done",
                            !.res = SelectSeq(PHASE_REQUIRED_ARTIFACTS(call.phase),
                                              LAMBDA artifact : artifact \notin call.present)]
    /\ StoreSame

NextPhases ==
    DetectNotes \/ CountMatches \/ DetectPatterns \/ InferPresent \/ MissingRequired

SpecPhases == InitPhases /\ [][NextPhases]_vars

\* most events by which a long history exceeds events[-20:]
MaxOver == 1

\* histories around the length of events[-20:]: two events with as many
\* curl probes between them as make RecentWindow events, and up to MaxOver
\* more
LongHistories ==
    {<<a>> \o [i \in 1 .. k |-> CurlProbe] \o <<b>> :
        a \in EventPool, b \in EventPool,
        k \in RecentWindow - 2 .. RecentWindow - 2 + MaxOver}

\* detect_phase(events, current_phase) is called on an empty, a short or a
\* long history
InitDetect ==
    /\ max_events = MaxCap
    /\ StoreDir({}, 0)
    /\ call \in {[fn |-> "detect_phase", pc |-> "start", events |-> events,
                  phase |-> PHASES[i], present |-> {}, match_counts |-> << >>,
                  res |-> [phase |-> "none"]] :
                    events \in {<< >>} \cup {<<a>> : a \in EventPool}
                                \cup {<<a, b>> : a \in EventPool, b \in EventPool}
                                \cup LongHistories,
                    i \in 1 .. Len(PHASES)}

NextDetect == DetectNotes \/ CountMatches \/ DetectPatterns

SpecDetect == InitDetect /\ [][NextDetect]_vars

----------------------------------------------------------------------------
(* C24 *)

\* the lowercased messages of the note-typed events among the last 10
\* events, concatenated
LastNotesText ==
    LET last == TailSlice(call.events, 10)
        notes == SelectSeq(last, LAMBDA event : event.event_type = "note")
    IN  JoinLower([i \in 1 .. Len(notes) |-> notes[i].payload.message])

\* C24: note-typed events among the last 10 events override everything else
\* in detect_phase: if their concatenated lowercased message text contains a
\* report keyword the result is (report, 0.9); otherwise, if it contains a
\* recon keyword the result is (recon, 0.85); in both cases regardless of
\* the current phase and of any command history.
C24_NotesOverrideEverything ==
    call.fn = "detect_phase" /\ call.pc = "done" =>
        IF \E keyword \in REPORT_KEYWORDS : KeywordIn(keyword, LastNotesText)
        THEN call.res = [phase |-> "report", confidence |-> Conf(90, 100)]
        ELSE (\E keyword \in RECON_KEYWORDS : KeywordIn(keyword, LastNotesText))
                => call.res = [phase |-> "recon", confidence |-> Conf(85, 100)]

\* C24 witness: with current phase report, a history that starts with a
\* gobuster command and ends, more than two events later, with the note
\* "need recon checklist" has given (recon, 0.85)
C24_Witness ==
    /\ call.fn = "detect_phase" /\ call.pc = "done"
    /\ call.phase = "report" /\ Len(call.events) > 2
    /\ call.events[1].payload.command = <<"gobuster", "dir">>
    /\ call.events[Len(call.events)].event_type = "note"
    /\ call.events[Len(call.events)].payload.message = <<"need", "recon", "checklist">>
    /\ call.res = [phase |-> "recon", confidence |-> Conf(85, 100)]

----------------------------------------------------------------------------
(* C25 *)

\* C25: for a non-empty history made only of command events that run a curl
\* HTTP probe (no note events) and current_phase = recon, detect_phase
\* returns phase recon with a confidence of at least 0.5.
C25_CurlProbesGiveReconAtLeastHalf ==
    /\ call.fn = "detect_phase" /\ call.pc = "done"
    /\ call.events # << >>
    /\ \A i \in 1 .. Len(call.events) : call.events[i] = CurlProbe
    /\ call.phase = "recon"
    => call.res.phase = "recon" /\ AtLeast(call.res.confidence, Conf(50, 100))

----------------------------------------------------------------------------
(* C26 *)

\* the artifacts that some event of the entire history signals as present
SignalledAnywhere ==
    UNION {InferArtifacts(<<call.events[i]>>) : i \in 1 .. Len(call.events)}

\* no event of the history has a gobuster, ffuf, nikto or enum4linux command
NoDeepScanCommand ==
    \A i \in 1 .. Len(call.events) :
        \A j \in 1 .. Len(call.events[i].payload.command) :
            Substrings(Lower(call.events[i].payload.command[j]))
                \cap {"gobuster", "ffuf", "nikto", "enum4linux"} = {}

\* C26: infer_missing_artifacts(events, phase) returns exactly the artifacts
\* required for the phase that no event in the entire history (not a
\* trailing window) signals as present, listed in the order of the phase's
\* required-artifacts table; for phase enumeration and a history with no
\* gobuster/ffuf/nikto/enum4linux command, deep_service_findings is
\* reported missing.
C26_MissingAreRequiredNotSignalled ==
    call.fn = "infer_missing_artifacts" /\ call.pc = "done" =>
        /\ call.res = SelectSeq(PHASE_REQUIRED_ARTIFACTS(call.phase),
                                LAMBDA artifact : artifact \notin SignalledAnywhere)
        /\ call.phase = "enumeration" /\ NoDeepScanCommand
            => \E i \in 1 .. Len(call.res) : call.res[i] = "deep_service_findings"

\* C26 witness: for phase enumeration, a history of more than 10 events
\* whose first event is an nmap command and that has no deep-scan command
\* has given deep_service_findings alone as missing
C26_Witness ==
    /\ call.fn = "infer_missing_artifacts" /\ call.pc = "done"
    /\ call.phase = "enumeration" /\ Len(call.events) > 10
    /\ call.events[1].payload.command = <<"nmap", "-sV", "10.10.10.25">>
    /\ NoDeepScanCommand
    /\ call.res = <<"deep_service_findings">>

----------------------------------------------------------------------------
(* rag/retriever.py and rag/store.py: RagRetriever.query and
   JsonVectorStore.search *)

\* most records in the index, and the largest top_k
MaxIndex == 2
MaxTopK == 2

REPORT_HINTS ==
    {<<"report">>, <<"template">>, <<"timeline">>, <<"findings">>, <<"final", "notes">>}
RECON_HINTS ==
    {<<"recon">>, <<"reconnaissance">>, <<"inventory">>, <<"service", "versions">>,
     <<"checklist">>}

\* embeddings: vectors of two components with a whole norm, so that cosine
\* similarities are whole hundredths
Vectors == {<<0, 0>>, <<1, 0>>, <<0, 1>>, <<3, 4>>, <<4, 3>>}

\* np.linalg.norm and np.dot
Norm(v) == CHOOSE n \in 0 .. 5 : n * n = v[1] * v[1] + v[2] * v[2]
Dot(v, w) == v[1] * w[1] + v[2] * w[2]

\* a VectorRecord; metadata is its source
VectorRecord(record_id, text, source, embedding) ==
    [record_id |-> record_id, text |-> text, source |-> source, embedding |-> embedding]

\* the records an index is made of: the two of the retriever test and one
\* about tools, with several embeddings
IndexRecords ==
    {VectorRecord("recon-1", <<"Recon", "checklist">>, "01_phase_checklist.md", e) :
        e \in {<<1, 0>>, <<3, 4>>}}
    \cup {VectorRecord("report-1", <<"Reporting", "template">>, "02_reporting_template.md", e) :
            e \in {<<0, 1>>, <<3, 4>>}}
    \cup {VectorRecord("tools-1", <<"nmap", "-sV">>, "03_tools.md", e) :
            e \in {<<4, 3>>, <<0, 0>>}}

\* the persisted index: up to MaxIndex records
Indexes == UNION {[1 .. n -> IndexRecords] : n \in 0 .. MaxIndex}

\* the query texts, a blank one among them
QueryTexts ==
    {<<"need", "report", "template">>, <<"need", "recon", "checklist">>,
     <<"recon", "report">>, <<"nmap", "-sV">>, << >>}

\* the focus argument of a call: not passed, or one of RagFocus
NotPassed == "<not passed>"
Focuses == {NotPassed, "auto", "recon", "report"}

\* a scored record
Match(record, score) == [record |-> record, score |-> score]

\* the score in hundredths: np.dot(query, candidate) / denominator, or 0.0
CosineScore(query, candidate) ==
    LET denominator == Norm(candidate) * Norm(query)
    IN  IF denominator # 0 THEN (100 * Dot(query, candidate)) \div denominator ELSE 0

\* list.sort(key=score, reverse=True): descending and stable
RECURSIVE SortByScore(_)
SortByScore(matches) ==
    IF matches = << >> THEN << >>
    ELSE LET item == matches[Len(matches)]
             before == SortByScore(SubSeq(matches, 1, Len(matches) - 1))
             keep == Cardinality({i \in 1 .. Len(before) : before[i].score >= item.score})
         IN  SubSeq(before, 1, keep) \o <<item>> \o SubSeq(before, keep + 1, Len(before))

\* Search without the test for a zero query norm
SearchUnguarded(records, query_embedding, top_k) ==
    IF records = << >> THEN << >>
    ELSE HeadSlice(SortByScore([i \in 1 .. Len(records) |->
                        Match(records[i], CosineScore(query_embedding, records[i].embedding))]),
                   top_k)

\* JsonVectorStore.search
Search(records, query_embedding, top_k) ==
    IF records = << >> THEN << >>
    ELSE IF Norm(query_embedding) = 0 THEN << >>
    ELSE HeadSlice(SortByScore([i \in 1 .. Len(records) |->
                        Match(records[i], CosineScore(query_embedding, records[i].embedding))]),
                   top_k)

\* wants_report and wants_recon
WantsReport(query) == \E hint \in REPORT_HINTS : KeywordIn(hint, JoinLower(<<query>>))
WantsRecon(query) == \E hint \in RECON_HINTS : KeywordIn(hint, JoinLower(<<query>>))

\* the tests on text_lower and source_lower
ReportRecord(record) ==
    \/ "report" \in Substrings(record.source) \/ "template" \in Substrings(record.source)
    \/ KeywordIn(<<"report">>, JoinLower(<<record.text>>))
ReconRecord(record) ==
    \/ KeywordIn(<<"recon">>, JoinLower(<<record.text>>))
    \/ "checklist" \in Substrings(record.source) \/ "recon" \in Substrings(record.source)

\* _apply_keyword_boost: 0.15 and 0.1 in hundredths
ApplyKeywordBoost(query, matches) ==
    SortByScore([i \in 1 .. Len(matches) |->
        Match(matches[i].record,
              matches[i].score
                + (IF WantsReport(query) /\ ReportRecord(matches[i].record) THEN 15 ELSE 0)
                + (IF WantsRecon(query) /\ ReconRecord(matches[i].record) THEN 10 ELSE 0))])

\* _apply_focus_filter
ApplyFocusFilter(query, matches) ==
    IF ~WantsReport(query) /\ ~WantsRecon(query) THEN matches
    ELSE LET filtered ==
                SelectSeq(matches, LAMBDA m :
                    \/ WantsReport(query) /\ ReportRecord(m.record)
                    \/ WantsRecon(query) /\ ReconRecord(m.record))
         IN  IF filtered # << >> THEN filtered ELSE matches

\* RetrievedContext
RetrievedContext(match) ==
    [source |-> match.record.source, score |-> match.score, content |-> match.record.text]

\* retriever.query(text, top_k) or retriever.query(text, top_k, focus=...)
\* is called over an index; embedding is what the embedder will answer
InitRetriever ==
    /\ max_events = MaxCap
    /\ StoreDir({}, 0)
    /\ call \in {[fn |-> "query", pc |-> "call", text |-> text, top_k |-> top_k,
                  focus |-> focus, index |-> index, embedding |-> embedding,
                  matches |-> << >>, result |-> << >>] :
                    text \in QueryTexts, top_k \in 1 .. MaxTopK, focus \in Focuses,
                    index \in Indexes, embedding \in Vectors}

\* the call is bound to query(self, text, top_k=4), which has no focus
\* parameter; a blank text returns []
QueryCall ==
    /\ call.fn = "query" /\ call.pc = "call"
    /\ IF call.focus # NotPassed THEN call' = [call EXCEPT !.pc = "raised"]
       ELSE IF call.text = << >> THEN call' = [call EXCEPT !.pc = "done"]
       ELSE call' = [call EXCEPT !.pc = "search"]
    /\ StoreSame

\* the text is embedded and the store is searched for max(top_k * 2, top_k)
\* candidates
QuerySearch ==
    /\ call.fn = "query" /\ call.pc = "search"
    /\ LET candidate_k ==
            IF call.top_k * 2 > call.top_k THEN call.top_k * 2 ELSE call.top_k
       IN  call' = [call EXCEPT !.pc = "boost",
                                !.matches = Search(call.index, call.embedding, candidate_k)]
    /\ StoreSame

\* boosted = self._apply_keyword_boost(text, matches)
QueryBoost ==
    /\ call.fn = "query" /\ call.pc = "boost"
    /\ call' = [call EXCEPT !.pc = "focus",
                            !.matches = ApplyKeywordBoost(call.text, call.matches)]
    /\ StoreSame

\* focused = self._apply_focus_filter(text, boosted), and the return
QueryFocus ==
    /\ call.fn = "query" /\ call.pc = "focus"
    /\ LET focused == HeadSlice(ApplyFocusFilter(call.text, call.matches), call.top_k)
       IN  call' = [call EXCEPT !.pc = "done",
                                !.result = [i \in 1 .. Len(focused) |->
                                                RetrievedContext(focused[i])]]
    /\ StoreSame

NextRetriever == QueryCall \/ QuerySearch \/ QueryBoost \/ QueryFocus

SpecRetriever == InitRetriever /\ [][NextRetriever]_vars

----------------------------------------------------------------------------
(* C27 *)

\* the candidates a query fetches from the index, boosted
BoostedCandidates ==
    ApplyKeywordBoost(call.text,
                      Search(call.index, call.embedding,
                             IF call.top_k * 2 > call.top_k THEN call.top_k * 2
                             ELSE call.top_k))

\* a record or a result of the keyword family of the focus
InFamily(focus, text, source) ==
    IF focus = "report"
    THEN ReportRecord([text |-> text, source |-> source])
    ELSE ReconRecord([text |-> text, source |-> source])

\* C27: a retriever query with an explicit focus selector (recon or report)
\* returns only candidates of the corresponding keyword family whenever at
\* least one fetched candidate matches it, and falls back to the unfiltered
\* but boosted candidates when none matches, so the result is never empty if
\* any candidate was fetched; with focus=report and a report-template record
\* in the index, the top result is a report/template record.
C27_FocusSelectsFamily ==
    /\ call.fn = "query" /\ call.pc \in {"done", "raised"}
    /\ call.focus \in {"recon", "report"} /\ call.text # << >>
    => /\ call.pc = "done"
       /\ IF \E i \in 1 .. Len(BoostedCandidates) :
                InFamily(call.focus, BoostedCandidates[i].record.text,
                         BoostedCandidates[i].record.source)
          THEN /\ call.result # << >>
               /\ \A i \in 1 .. Len(call.result) :
                    InFamily(call.focus, call.result[i].content, call.result[i].source)
          ELSE call.result = [i \in 1 .. Len(HeadSlice(BoostedCandidates, call.top_k)) |->
                                RetrievedContext(BoostedCandidates[i])]

----------------------------------------------------------------------------
(* C28 *)

\* C28: a query whose embedding is the zero vector, run against a non-empty
\* index, returns an empty result list (no division by zero, no error).
C28_ZeroVectorGivesEmptyResult ==
    /\ call.fn = "query" /\ call.pc \in {"done", "raised"}
    /\ call.focus = NotPassed /\ call.text # << >>
    /\ call.embedding = <<0, 0>> /\ call.index # << >>
    => call.pc = "done" /\ call.result = << >>

\* C28 witness: the query "need report template" with the zero vector as
\* its embedding has passed the search, the boost and the focus filter over
\* an index of two records and has returned the empty list
C28_Witness ==
    /\ call.fn = "query" /\ call.pc = "done"
    /\ call.focus = NotPassed /\ call.text = <<"need", "report", "template">>
    /\ call.embedding = <<0, 0>> /\ Len(call.index) = 2
    /\ call.result = << >>

----------------------------------------------------------------------------
(* rag/indexer.py and rag/store.py: build_rag_index and write_records *)

\* a chunk of the corpus: its id, text and source
Chunk(chunk_id, text, source) == [chunk_id |-> chunk_id, text |-> text, source |-> source]

\* the chunks load_and_chunk may find
Chunks ==
    {Chunk("recon-1", <<"Recon", "checklist">>, "01_phase_checklist.md"),
     Chunk("report-1", <<"Reporting", "template">>, "02_reporting_template.md"),
     Chunk("tools-1", <<"nmap", "-sV">>, "03_tools.md")}

\* what the embedder answers for a chunk when it answers
EmbedChunk(chunk) ==
    CASE chunk.chunk_id = "recon-1"  -> <<1, 0>>
      [] chunk.chunk_id = "report-1" -> <<0, 1>>
      [] OTHER                       -> <<4, 3>>

\* the records built from chunks and their embeddings
BuildRecords(chunks) ==
    [i \in 1 .. Len(chunks) |->
        VectorRecord(chunks[i].chunk_id, chunks[i].text, chunks[i].source,
                     EmbedChunk(chunks[i]))]

\* what a reader of the index has seen: nothing yet, or the records read
NotRead == [read |-> FALSE, records |-> << >>]
ReadAs(records) == [read |-> TRUE, records |-> records]

\* build_rag_index is called over an index file that holds the records of
\* an earlier build; index is the content of the file
InitRebuild ==
    /\ max_events = MaxCap
    /\ StoreDir({}, 0)
    /\ call \in {[fn |-> "build_rag_index", pc |-> "chunks", old |-> old, index |-> old,
                  chunks |-> chunks, records |-> << >>, seen |-> NotRead] :
                    old \in Indexes,
                    chunks \in UNION {[1 .. n -> Chunks] : n \in 0 .. MaxIndex}}

\* chunks = load_and_chunk(...); with no chunk, write_records([]) is next
BuildChunks ==
    /\ call.fn = "build_rag_index" /\ call.pc = "chunks"
    /\ call' = [call EXCEPT !.pc = IF call.chunks = << >> THEN "open" ELSE "embed"]
    /\ StoreSame

\* embedder.embed_texts answers, and the records are built, or it raises
BuildEmbed ==
    /\ call.fn = "build_rag_index" /\ call.pc = "embed"
    /\ \/ call' = [call EXCEPT !.pc = "open", !.records = BuildRecords(call.chunks)]
       \/ call' = [call EXCEPT !.pc = "raised"]
    /\ StoreSame

\* write_records: self.index_path.open("w") truncates the index file
WriteRecordsOpen ==
    /\ call.fn = "build_rag_index" /\ call.pc = "open"
    /\ call' = [call EXCEPT !.pc = "write", !.index = << >>]
    /\ StoreSame

\* write_records: the next record is written, or the file is closed and
\* build_rag_index returns
WriteRecordsWrite ==
    /\ call.fn = "build_rag_index" /\ call.pc = "write"
    /\ IF Len(call.index) < Len(call.records)
       THEN call' = [call EXCEPT !.index = Append(@, call.records[Len(call.index) + 1])]
       ELSE call' = [call EXCEPT !.pc = "done"]
    /\ StoreSame

\* the process that rebuilds dies; the index file stays as it is
RebuildCrash ==
    /\ call.fn = "build_rag_index" /\ call.pc \notin {"done", "raised", "crashed"}
    /\ call' = [call EXCEPT !.pc = "crashed"]
    /\ StoreSame

\* another process loads the records of the index file
ReaderLoadRecords ==
    /\ call.fn = "build_rag_index"
    /\ call' = [call EXCEPT !.seen = ReadAs(call.index)]
    /\ StoreSame

NextRebuild ==
    \/ BuildChunks \/ BuildEmbed \/ WriteRecordsOpen \/ WriteRecordsWrite
    \/ RebuildCrash \/ ReaderLoadRecords

SpecRebuild == InitRebuild /\ [][NextRebuild]_vars

----------------------------------------------------------------------------
(* C29 *)

\* C29: an index rebuild replaces the persisted index atomically: if the
\* rebuild fails or crashes at any point (embedding call, or part-way
\* through writing records), a reader of the index sees either the complete
\* old index or the complete new index, never an empty, truncated or mixed
\* old/new index.
C29_ReaderSeesOldOrNew ==
    call.fn = "build_rag_index" /\ call.seen.read =>
        call.seen.records \in {call.old, BuildRecords(call.chunks)}

----------------------------------------------------------------------------
(* rag/store.py: the cached parse of JsonVectorStore *)

\* threads that use one JsonVectorStore, and the calls they make in all
MaxVecThreads == 2
MaxVecOps == 3

VecThreads == 1 .. MaxVecThreads

\* the record lists that are written to the index
RecordLists ==
    {<< >>,
     BuildRecords(<<CHOOSE c \in Chunks : c.chunk_id = "recon-1">>),
     BuildRecords(<<CHOOSE c \in Chunks : c.chunk_id = "report-1",
                    CHOOSE c \in Chunks : c.chunk_id = "tools-1">>)}

\* a line of the file that was never written: a handle wrote behind the end
\* of the file after another open("w") had truncated it
Hole == [hole |-> TRUE]

\* _index_signature: (st_mtime_ns, st_size), (0, 0) without a file; the
\* modification time is the number of modifications of the file so far and
\* the size the number of its lines
IndexSignature(file) == IF file.exists THEN <<file.mtime, Len(file.lines)>> ELSE <<0, 0>>

\* _cached_signature and _cached_records, None at construction
NoCachedParse == [set |-> FALSE, signature |-> <<0, 0>>, records |-> << >>]
CachedParse(records, signature) == [set |-> TRUE, signature |-> signature, records |-> records]

\* a thread that is in no call of the store
VecIdle ==
    [pc |-> "idle", op |-> "none", arg |-> << >>, pos |-> 0, signature |-> <<0, 0>>,
     records |-> << >>, ret |-> << >>, from_cache |-> FALSE]

\* handle.write of one record at the position of the handle: the line is
\* appended, or overwrites the line another handle wrote there, or lands
\* behind the end of the file
WriteAt(lines, pos, record) ==
    LET padded == IF Len(lines) < pos
                  THEN lines \o [i \in 1 .. pos - Len(lines) |-> Hole]
                  ELSE lines
    IN  IF Len(padded) > pos THEN [padded EXCEPT ![pos + 1] = record]
        ELSE Append(padded, record)

\* the file after a modification; contents keeps the lines the file had
\* after each of its modifications
Modified(file, lines) == [exists |-> TRUE, mtime |-> file.mtime + 1, lines |-> lines]

\* a JsonVectorStore is constructed over an index path with no file or with
\* the file of an earlier build
InitCache ==
    /\ max_events = MaxCap
    /\ StoreDir({}, 0)
    /\ call \in {[fn |-> "vector_store", file |-> file,
                  contents |-> IF file.exists THEN <<file.lines>> ELSE << >>,
                  cache |-> NoCachedParse, ops |-> 0,
                  threads |-> [t \in VecThreads |-> VecIdle]] :
                    file \in {[exists |-> FALSE, mtime |-> 0, lines |-> << >>]}
                             \cup {[exists |-> TRUE, mtime |-> 1, lines |-> lines] :
                                     lines \in RecordLists}}

\* a thread calls load_records
LoadRecords ==
    \E t \in VecThreads :
        /\ call.fn = "vector_store" /\ call.threads[t].pc = "idle" /\ call.ops < MaxVecOps
        /\ call' = [call EXCEPT !.ops = @ + 1,
                                !.threads[t] = [VecIdle EXCEPT !.pc = "signature",
                                                              !.op = "load_records"]]
        /\ StoreSame

\* signature = self._index_signature()
LoadSignature ==
    \E t \in VecThreads :
        /\ call.fn = "vector_store" /\ call.threads[t].pc = "signature"
        /\ call' = [call EXCEPT !.threads[t].pc = "check",
                                !.threads[t].signature = IndexSignature(call.file)]
        /\ StoreSame

\* under _cache_lock: the cached records are returned if the cached
\* signature is the one taken
LoadCacheCheck ==
    \E t \in VecThreads :
        /\ call.fn = "vector_store" /\ call.threads[t].pc = "check"
        /\ IF call.cache.set /\ call.cache.signature = call.threads[t].signature
           THEN call' = [call EXCEPT !.threads[t].pc = "done",
                                     !.threads[t].ret = call.cache.records,
                                     !.threads[t].from_cache = TRUE]
           ELSE call' = [call EXCEPT !.threads[t].pc = "exists"]
        /\ StoreSame

\* `if not self.index_path.exists()`: without a file the empty list is
\* cached under the signature taken, and returned
LoadMissing ==
    \E t \in VecThreads :
        /\ call.fn = "vector_store" /\ call.threads[t].pc = "exists"
        /\ IF ~call.file.exists
           THEN call' = [call EXCEPT !.threads[t].pc = "done",
                                     !.threads[t].ret = << >>,
                                     !.cache = CachedParse(<< >>, call.threads[t].signature)]
           ELSE call' = [call EXCEPT !.threads[t].pc = "parse"]
        /\ StoreSame

\* the file is read and parsed; json.loads raises on a line that was never
\* written
LoadParse ==
    \E t \in VecThreads :
        /\ call.fn = "vector_store" /\ call.threads[t].pc = "parse"
        /\ IF \E i \in 1 .. Len(call.file.lines) : call.file.lines[i] = Hole
           THEN call' = [call EXCEPT !.threads[t].pc = "raised"]
           ELSE call' = [call EXCEPT !.threads[t].pc = "store",
                                     !.threads[t].records = call.file.lines]
        /\ StoreSame

\* under _cache_lock: the records parsed are cached under the signature
\* taken at the start, and returned
LoadCacheStore ==
    \E t \in VecThreads :
        /\ call.fn = "vector_store" /\ call.threads[t].pc = "store"
        /\ call' = [call EXCEPT !.threads[t].pc = "done",
                                !.threads[t].ret = call.threads[t].records,
                                !.cache = CachedParse(call.threads[t].records,
                                                      call.threads[t].signature)]
        /\ StoreSame

\* a thread calls write_records(records)
WriteRecords ==
    \E t \in VecThreads, records \in RecordLists :
        /\ call.fn = "vector_store" /\ call.threads[t].pc = "idle" /\ call.ops < MaxVecOps
        /\ call' = [call EXCEPT !.ops = @ + 1,
                                !.threads[t] = [VecIdle EXCEPT !.pc = "open",
                                                              !.op = "write_records",
                                                              !.arg = records]]
        /\ StoreSame

\* self.index_path.open("w") creates or truncates the file
WriteRecordsTruncate ==
    \E t \in VecThreads :
        /\ call.fn = "vector_store" /\ call.threads[t].pc = "open"
        /\ call' = [call EXCEPT !.threads[t].pc = "write",
                                !.file = Modified(call.file, << >>),
                                !.contents = Append(@, << >>)]
        /\ StoreSame

\* the next record is written through the handle, or the handle is closed
WriteRecordsAppend ==
    \E t \in VecThreads :
        /\ call.fn = "vector_store" /\ call.threads[t].pc = "write"
        /\ LET thread == call.threads[t] IN
           IF thread.pos < Len(thread.arg)
           THEN LET lines == WriteAt(call.file.lines, thread.pos, thread.arg[thread.pos + 1])
                IN  call' = [call EXCEPT !.threads[t].pos = @ + 1,
                                         !.file = Modified(call.file, lines),
                                         !.contents = Append(@, lines)]
           ELSE call' = [call EXCEPT !.threads[t].pc = "refresh"]
        /\ StoreSame

\* "Refresh cache after write", under _cache_lock: the records written are
\* cached under the signature the file has now
WriteRecordsRefresh ==
    \E t \in VecThreads :
        /\ call.fn = "vector_store" /\ call.threads[t].pc = "refresh"
        /\ call' = [call EXCEPT !.threads[t].pc = "done",
                                !.cache = CachedParse(call.threads[t].arg,
                                                      IndexSignature(call.file))]
        /\ StoreSame

\* the call has returned or raised and the thread is free for the next
VecReturn ==
    \E t \in VecThreads :
        /\ call.fn = "vector_store" /\ call.threads[t].pc \in {"done", "raised"}
        /\ call.ops < MaxVecOps
        /\ call' = [call EXCEPT !.threads[t] = VecIdle]
        /\ StoreSame

NextCache ==
    \/ LoadRecords \/ LoadSignature \/ LoadCacheCheck \/ LoadMissing \/ LoadParse
    \/ LoadCacheStore \/ WriteRecords \/ WriteRecordsTruncate \/ WriteRecordsAppend
    \/ WriteRecordsRefresh \/ VecReturn

SpecCache == InitCache /\ [][NextCache]_vars

----------------------------------------------------------------------------
(* services/llm_client.py: RedteamLLMClient.generate_actions *)

\* most entries in the actions list the collaborator answers with
MaxLlmItems == 5

\* actions_raw[:4]
LlmActionsCap == 4

PHASE_DONE_CRITERIA(phase) ==
    CASE phase = "recon" -> "Service inventory exists for each in-scope target with evidence."
      [] phase = "enumeration" ->
            "At least one deep finding per discovered service is documented."
      [] phase = "hypothesis" -> "1-3 ranked hypotheses are written with validation plans."
      [] phase = "attempt" ->
            "Each hypothesis has a pass/fail validation result and timestamp."
      [] phase = "post_check" -> "Impact verification and containment notes are captured."
      [] phase = "report" -> "Timeline, findings, and evidence references are complete."

\* an ActionItem
ActionItem(title, rationale, command, done_criteria) ==
    [title |-> title, rationale |-> [text |-> rationale, reasons |-> << >>],
     command |-> command, done_criteria |-> done_criteria]

\* _heuristic_actions
HeuristicActions(phase) ==
    CASE phase = "recon" ->
            <<ActionItem("Build in-scope service inventory",
                         "Inventory is required before deep enumeration.",
                         Command(<<"nmap", "-sV", "-Pn", "<TARGET_IN_SCOPE>">>),
                         PHASE_DONE_CRITERIA("recon")),
              ActionItem("Capture baseline notes",
                         "Documenting early findings improves later hypothesis quality.",
                         NoCommand,
                         "At least one note per target is added to session timeline.")>>
      [] phase = "enumeration" ->
            <<ActionItem("Deepen service-level inspection",
                         "Service-specific enumeration reveals candidate weak points.",
                         Command(<<"gobuster", "dir", "-u", "http://<TARGET_IN_SCOPE>", "-w",
                                   "<WORDLIST_IN_LAB>">>),
                         PHASE_DONE_CRITERIA("enumeration")),
              ActionItem("Record notable responses",
                         "Response patterns support stronger hypotheses.",
                         NoCommand,
                         "Top anomalies and related evidence refs are written as notes.")>>
      [] phase = "hypothesis" ->
            <<ActionItem("Rank top attack hypotheses",
                         "Prioritization avoids random tool usage.",
                         NoCommand, PHASE_DONE_CRITERIA("hypothesis")),
              ActionItem("Define validation plan per hypothesis",
                         "Each hypothesis needs a measurable validation step.",
                         NoCommand,
                         "Every hypothesis has one in-scope verification method.")>>
      [] phase = "attempt" ->
            <<ActionItem("Run lab-approved verification for hypothesis #1",
                         "Execute the smallest safe validation first.",
                         Command(<<"<LAB_APPROVED_TOOL>", "<TARGET_IN_SCOPE>", "<SAFE_PARAMS>">>),
                         PHASE_DONE_CRITERIA("attempt")),
              ActionItem("Log result and branch decision",
                         "Pass/fail evidence determines the next branch quickly.",
                         NoCommand,
                         "Result is marked pass/fail with timestamp and evidence ref.")>>
      [] phase = "post_check" ->
            <<ActionItem("Validate impact boundaries in lab",
                         "Impact must be demonstrated and bounded within scenario scope.",
                         Command(<<"whoami">>), PHASE_DONE_CRITERIA("post_check")),
              ActionItem("Collect cleanup and reset notes",
                         "Lab reproducibility depends on clean post-check handoff.",
                         NoCommand,
                         "Containment/reset notes are captured for instructor review.")>>
      [] phase = "report" ->
            <<ActionItem("Compile finding timeline",
                         "A clear timeline is required for grading and replay.",
                         NoCommand, PHASE_DONE_CRITERIA("report")),
              ActionItem("Attach evidence references",
                         "Each finding must map to concrete evidence.",
                         NoCommand,
                         "Every finding includes at least one evidence reference.")>>

\* _heuristic_reasoning: the sentence built from the phase and the missing
\* artifacts
HeuristicReasoning(phase, missing_artifacts) ==
    [templated |-> TRUE, phase |-> phase,
     missing |-> IF missing_artifacts = << >> THEN <<"none">> ELSE missing_artifacts]

\* a reasoning string of the collaborator
Reasoning(text) == [templated |-> FALSE, text |-> text]

\* the heuristic answer
Heuristic(phase, missing_artifacts) ==
    [reasoning |-> HeuristicReasoning(phase, missing_artifacts),
     actions |-> HeuristicActions(phase)]

\* the entries of the collaborator's actions list: one that is no JSON
\* object, a complete action, and an object with blank fields and a null
\* command
NotAnObject == [kind |-> "junk"]
LlmItems ==
    {NotAnObject,
     [kind |-> "dict", title |-> "Scan the target", rationale |-> "Ports first.",
      command |-> Command(<<"nmap", "-sV", "10.10.10.25">>), done_criteria |-> "Ports listed."],
     [kind |-> "dict", title |-> "", rationale |-> "", command |-> NoCommand,
      done_criteria |-> ""]}

\* what the collaborator does: it raises, or it answers with text that is
\* no JSON, with JSON that is no object, or with an object whose actions
\* are no list or a list of up to MaxLlmItems entries
LlmResponses ==
    {[kind |-> k] : k \in {"raises", "not_json", "not_object"}}
    \cup {[kind |-> "object", reasoning |-> r, actions |-> a] :
            r \in {"", "Enumerate next."},
            a \in {[list |-> FALSE, items |-> << >>]}
                \cup {[list |-> TRUE, items |-> items] :
                        items \in UNION {[1 .. n -> LlmItems] : n \in 0 .. MaxLlmItems}}}

\* the loop of _llm_actions without the [:4]
ParseActionsUncapped(actions_raw, phase) ==
    IF ~actions_raw.list THEN << >>
    ELSE LET dicts == SelectSeq(actions_raw.items, LAMBDA item : item.kind = "dict")
         IN  [i \in 1 .. Len(dicts) |->
                ActionItem(IF dicts[i].title = "" THEN "Next step" ELSE dicts[i].title,
                           IF dicts[i].rationale = "" THEN "Follow lab methodology."
                           ELSE dicts[i].rationale,
                           dicts[i].command,
                           IF dicts[i].done_criteria = "" THEN PHASE_DONE_CRITERIA(phase)
                           ELSE dicts[i].done_criteria)]

\* the loop of _llm_actions: the objects among actions_raw[:4] as
\* ActionItems, blank fields replaced by the defaults
ParseActions(actions_raw, phase) ==
    IF ~actions_raw.list THEN << >>
    ELSE LET dicts == SelectSeq(HeadSlice(actions_raw.items, LlmActionsCap),
                                LAMBDA item : item.kind = "dict")
         IN  [i \in 1 .. Len(dicts) |->
                ActionItem(IF dicts[i].title = "" THEN "Next step" ELSE dicts[i].title,
                           IF dicts[i].rationale = "" THEN "Follow lab methodology."
                           ELSE dicts[i].rationale,
                           dicts[i].command,
                           IF dicts[i].done_criteria = "" THEN PHASE_DONE_CRITERIA(phase)
                           ELSE dicts[i].done_criteria)]

NoAnswer == [reasoning |-> Reasoning(""), actions |-> << >>]

\* generate_actions(context) is called on a client with or without a
\* collaborator; response is what the collaborator will do
InitGenerate ==
    /\ max_events = MaxCap
    /\ StoreDir({}, 0)
    /\ call \in {[fn |-> "generate_actions", pc |-> "call", client |-> client,
                  phase |-> PHASES[i], missing_artifacts |-> missing, response |-> response,
                  llm |-> NoAnswer, res |-> NoAnswer] :
                    client \in BOOLEAN, i \in 1 .. Len(PHASES),
                    missing \in {<< >>, <<"service_inventory">>},
                    response \in LlmResponses}

\* `if self.client is None`
GenerateActions ==
    /\ call.fn = "generate_actions" /\ call.pc = "call"
    /\ IF ~call.client
       THEN call' = [call EXCEPT !.pc = "done",
                                 !.res = Heuristic(call.phase, call.missing_artifacts)]
       ELSE call' = [call EXCEPT !.pc = "llm"]
    /\ StoreSame

\* _llm_actions up to payload: the request, json.loads and payload.get raise,
\* or there is a payload
LlmRequest ==
    /\ call.fn = "generate_actions" /\ call.pc = "llm"
    /\ call' = [call EXCEPT !.pc = IF call.response.kind = "object" THEN "parse" ELSE "except"]
    /\ StoreSame

\* _llm_actions from reasoning to its return
LlmParse ==
    /\ call.fn = "generate_actions" /\ call.pc = "parse"
    /\ call' = [call EXCEPT
                  !.pc = "check",
                  !.llm = [reasoning |->
                              IF call.response.reasoning = ""
                              THEN HeuristicReasoning(call.phase, call.missing_artifacts)
                              ELSE Reasoning(call.response.reasoning),
                           actions |-> ParseActions(call.response.actions, call.phase)]]
    /\ StoreSame

\* `if not actions` and the two returns of the try block
GenerateCheck ==
    /\ call.fn = "generate_actions" /\ call.pc = "check"
    /\ call' = [call EXCEPT !.pc = "done",
                            !.res = IF call.llm.actions = << >>
                                    THEN Heuristic(call.phase, call.missing_artifacts)
                                    ELSE call.llm]
    /\ StoreSame

\* `except Exception`
GenerateExcept ==
    /\ call.fn = "generate_actions" /\ call.pc = "except"
    /\ call' = [call EXCEPT !.pc = "done",
                            !.res = Heuristic(call.phase, call.missing_artifacts)]
    /\ StoreSame

NextGenerate == GenerateActions \/ LlmRequest \/ LlmParse \/ GenerateCheck \/ GenerateExcept

SpecGenerate == InitGenerate /\ [][NextGenerate]_vars

----------------------------------------------------------------------------
(* C30 *)

\* the objects among the first four entries of the collaborator's actions
CollaboratorActions ==
    IF call.client /\ call.response.kind = "object" /\ call.response.actions.list
    THEN SelectSeq(SubSeq(call.response.actions.items, 1,
                          IF Len(call.response.actions.items) < 4
                          THEN Len(call.response.actions.items) ELSE 4),
                   LAMBDA item : item.kind = "dict")
    ELSE << >>

\* the six fixed templates have two actions each
TemplatesHaveTwoActions == \A i \in 1 .. Len(PHASES) : Len(HeuristicActions(PHASES[i])) = 2

\* C30: generate_actions never raises and always returns a non-empty action
\* list: when the reasoning collaborator is not configured, throws, returns
\* malformed output or returns an empty action list, the result is the
\* fixed template of the classified phase, which has exactly 2 actions for
\* each of the six phases, together with the templated reasoning string;
\* otherwise it returns the collaborator's actions, at most 4.
C30_FallbackOrCollaboratorActions ==
    call.fn = "generate_actions" =>
        /\ call.pc \in {"call", "llm", "parse", "check", "except", "done"}
        /\ call.pc = "done" =>
            /\ call.res.actions # << >>
            /\ TemplatesHaveTwoActions
            /\ IF CollaboratorActions = << >>
               THEN /\ call.res.actions = HeuristicActions(call.phase)
                    /\ call.res.reasoning.templated
                    /\ call.res.reasoning.phase = call.phase
               ELSE /\ Len(call.res.actions) = Len(CollaboratorActions)
                    /\ Len(call.res.actions) <= 4
                    /\ \A i \in 1 .. Len(call.res.actions) :
                        /\ call.res.actions[i].command = CollaboratorActions[i].command
                        /\ CollaboratorActions[i].title # ""
                            => call.res.actions[i].title = CollaboratorActions[i].title

\* C30 witness: the collaborator has answered with five complete actions
\* and generate_actions has returned the first four
C30_Witness ==
    /\ call.fn = "generate_actions" /\ call.pc = "done"
    /\ call.client /\ call.response.kind = "object" /\ call.response.actions.list
    /\ Len(call.response.actions.items) = 5
    /\ \A i \in 1 .. 5 : call.response.actions.items[i].kind = "dict"
                            /\ call.response.actions.items[i].title = "Scan the target"
    /\ Len(call.res.actions) = 4
    /\ \A i \in 1 .. 4 : call.res.actions[i].title = "Scan the target"

----------------------------------------------------------------------------
(* C31 *)

\* the proposed command, lowered, contains a blocklisted pattern
Blocklisted(action) ==
    /\ HasCommand(action.command)
    /\ \E pattern \in BlocklistPatterns : ContainsPattern(action.command.words, pattern)

\* the action had a command and the sanitized action has none
Stripped(action, sanitized_action) ==
    HasCommand(action.command) /\ sanitized_action.command = NoCommand

\* C31: for an action whose lowercased command contains a blocklisted
\* substring, the sanitized command is null and the blocklist reason is the
\* only reason appended to the rationale, even when its tool is not allowed
\* or its targets are out of scope; the rationale of a stripped action is
\* the original rationale followed by a non-empty reason list, and the
\* rationale changes if and only if the command was stripped.
C31_BlocklistShortCircuits ==
    call.fn = "sanitize_actions" /\ call.pc = "done" =>
        \A i \in 1 .. Len(call.actions) :
            LET action == call.actions[i]
                sanitized_action == call.sanitized[i]
            IN  /\ Blocklisted(action) =>
                    /\ sanitized_action.command = NoCommand
                    /\ sanitized_action.rationale.reasons = <<[kind |-> "blocklist"]>>
                /\ sanitized_action.rationale.text = action.rationale.text
                /\ Stripped(action, sanitized_action)
                      => sanitized_action.rationale.reasons # << >>
                /\ sanitized_action.rationale # action.rationale
                      <=> Stripped(action, sanitized_action)

\* C31 witness: "rm -rf 10.10.10.99" in scope ["10.10.10.25"], whose tool is
\* not allowed and whose target is out of scope, has come back without a
\* command and with the blocklist reason alone
C31_Witness ==
    /\ call.fn = "sanitize_actions" /\ call.pc = "done"
    /\ call.target_scope = <<"10.10.10.25">>
    /\ call.actions[1].command = Command(<<"rm", "-rf", "10.10.10.99">>)
    /\ ExtractTool(call.actions[1].command.words) \notin AllowedTools
    /\ FindOutOfScopeTargets(call.actions[1].command.words,
                             NormalizedScope(call.target_scope)) # {}
    /\ call.sanitized[1].command = NoCommand
    /\ call.sanitized[1].rationale.reasons = <<[kind |-> "blocklist"]>>

----------------------------------------------------------------------------
(* C32 *)

\* the command, lowered, contains the scope placeholder
HasPlaceholder(action) ==
    \E i \in 1 .. Len(action.command.words) :
        Lower(action.command.words[i]) = "<target_in_scope>"

\* the rationale of the sanitized action carries an out-of-scope reason
StrippedByScope(sanitized_action) ==
    \E i \in 1 .. Len(sanitized_action.rationale.reasons) :
        sanitized_action.rationale.reasons[i].kind = "out_of_scope"

\* C32: the scope check never strips a command that contains the scope
\* placeholder, in any letter case, and is skipped when target_scope is
\* empty or normalizes to empty: such a command with an allowed tool and no
\* blocklisted substring is returned with its command and rationale
\* unchanged, whatever IPv4 or host-name targets it references.
C32_PlaceholderAndEmptyScopeSkipScopeCheck ==
    call.fn = "sanitize_actions" /\ call.pc = "done" =>
        \A i \in 1 .. Len(call.actions) :
            LET action == call.actions[i] IN
            /\ HasCommand(action.command)
            /\ HasPlaceholder(action) \/ NormalizedScope(call.target_scope) = {}
            => /\ ~StrippedByScope(call.sanitized[i])
               /\ /\ ~Blocklisted(action)
                  /\ ExtractTool(action.command.words) \in AllowedTools
                  => call.sanitized[i] = action

\* C32 witness: "nmap <TARGET_IN_SCOPE> 10.10.10.99" in scope
\* ["10.10.10.25"] has come back as it was, although 10.10.10.99 is not in
\* the scope
C32_Witness ==
    /\ call.fn = "sanitize_actions" /\ call.pc = "done"
    /\ call.target_scope = <<"10.10.10.25">>
    /\ call.actions[1].command = Command(<<"nmap", "<TARGET_IN_SCOPE>", "10.10.10.99">>)
    /\ "10.10.10.99" \notin NormalizedScope(call.target_scope)
    /\ call.sanitized[1] = call.actions[1]

----------------------------------------------------------------------------
(* C33 *)

\* a report or recon keyword occurs in the notes of events[-10:]
NoteKeyword ==
    \E keyword \in REPORT_KEYWORDS \cup RECON_KEYWORDS :
        KeywordIn(keyword, NoteText(call.events))

\* for every phase of the table, the number of its patterns that occur in
\* the text of events[-20:]
RecentHits ==
    LET text == RecentText(call.events) IN
    [i \in 1 .. Len(PHASES) |->
        Cardinality({pattern \in PHASE_PATTERNS(PHASES[i]) : KeywordIn(pattern, text)})]

\* some pattern of some phase occurs in the text of events[-20:]
PatternHit == \E i \in 1 .. Len(PHASES) : RecentHits[i] > 0

----------------------------------------------------------------------------
(* C34 *)

\* C34: when no note keyword applies and at least one pattern hits,
\* detect_phase returns the stage with the most pattern hits over the text
\* of the last 20 events, each pattern counted once, the first of the stage
\* table among equals, with confidence min(0.95, 0.5 + 0.5 * hits of the
\* winner / total hits), which lies in (0.5, 0.95].
C34_MostHitsWinsInTableOrder ==
    call.fn = "detect_phase" /\ call.pc = "done" /\ call.events # << >> /\ ~NoteKeyword =>
        LET hits == RecentHits
            total == SumCounts(hits)
            winner == CHOOSE i \in 1 .. Len(PHASES) : PHASES[i] = call.res.phase
            confidence == call.res.confidence
        IN  total > 0 =>
            /\ call.res.phase \in {PHASES[i] : i \in 1 .. Len(PHASES)}
            /\ \A j \in 1 .. Len(PHASES) : hits[j] <= hits[winner]
            /\ \A j \in 1 .. winner - 1 : hits[j] < hits[winner]
            /\ IF 100 * (total + hits[winner]) <= 95 * 2 * total
               THEN confidence.num * 2 * total = (total + hits[winner]) * confidence.den
               ELSE confidence.num * 100 = 95 * confidence.den
            /\ 2 * confidence.num > confidence.den
            /\ 100 * confidence.num <= 95 * confidence.den

\* C34 witness: a hydra command and, 19 curl probes later, a gobuster
\* command are both within events[-20:], enumeration and attempt have one
\* hit each, and enumeration at 0.75 is the answer
C34_Witness ==
    /\ call.fn = "detect_phase" /\ call.pc = "done"
    /\ Len(call.events) = RecentWindow
    /\ call.events[1].payload.command = <<"hydra">>
    /\ call.events[Len(call.events)].payload.command = <<"gobuster", "dir">>
    /\ RecentHits = <<0, 1, 0, 1, 0, 0>>
    /\ call.res.phase = "enumeration"
    /\ 4 * call.res.confidence.num = 3 * call.res.confidence.den

----------------------------------------------------------------------------
(* C35 *)

\* the records of the index content that carries the signature: no record
\* without a file, else the lines the file had after the modification the
\* signature names
ContentOf(signature) == IF signature[1] = 0 THEN << >> ELSE call.contents[signature[1]]

\* C35: under any interleaving of load_records and write_records on one
\* vector store the cached pair (signature, records) is consistent: the
\* cached records are the parse of the index content that carries the
\* cached signature, and no reader is served a cached parse of content
\* other than the one its observed signature identifies.
C35_CachedPairConsistent ==
    call.fn = "vector_store" =>
        /\ call.cache.set => call.cache.records = ContentOf(call.cache.signature)
        /\ \A t \in VecThreads :
            call.threads[t].pc = "done" /\ call.threads[t].from_cache
                => call.threads[t].ret = ContentOf(call.threads[t].signature)

----------------------------------------------------------------------------
(* C36 *)

\* the step in which a suggest call ends, by returning or by raising
SuggestEnds(t) == th[t].sg.job = "suggest" /\ th'[t].sg.job = "none" /\ th'[t].pc = "done"

\* C36, as a step: a suggest whose request carries an override without the
\* persist flag ends with the record's current_phase as it was; any other
\* suggest on a stored session ends with a response, and the current_phase
\* of the record is then the phase of the response
PhasePersistedAsRequested ==
    \A t \in Threads :
        LET s == th[t].sid IN
        SuggestEnds(t) /\ rec[s].st = "full" /\ th'[t].res # "KeyError" =>
            IF th[t].req.phase_override # "none" /\ ~th[t].req.persist_phase_override
            THEN rec'[s].st = "full" /\ rec'[s].current_phase = rec[s].current_phase
            ELSE /\ th'[t].res = "ok" /\ th'[t].ret # << >>
                 /\ rec'[s].st = "full" /\ rec'[s].current_phase = th'[t].ret[1].phase

----------------------------------------------------------------------------
(* C37 *)

\* C37: the session store never deadlocks: with terminating mutators and
\* fair scheduling every update_session, append_events, append_note,
\* save_session and delete_session call, on the same or on different session
\* ids, eventually acquires the locks it needs (the per-session lock first,
\* then the store-wide write lock) and returns.
C37_EveryMutatorReturns ==
    \A t \in Threads :
        /\ (th[t].pc = "flock")
              ~> (th[t].pc # "flock" /\ th[t].h \in Inodes /\ lockHolder[th[t].h] = t)
        /\ (th[t].pc = "w_lock") ~> (th[t].pc = "w_open" /\ plock[ProcOf(t)] = t)
        /\ (~Free(t)) ~> (th[t].pc = "done")

\* C37 witness: a thread that holds the lock of its session waits for the
\* write lock of its store, which a thread writing another session holds
C37_Witness ==
    \E t \in Threads, u \in Threads :
        /\ th[t].pc = "w_lock" /\ th[t].h \in Inodes /\ lockHolder[th[t].h] = t
        /\ plock[ProcOf(t)] = u /\ u # t
        /\ th[u].sid # th[t].sid

----------------------------------------------------------------------------
(* Two delete_session calls on one session *)

\* C38: when two delete_session calls on the same existing session run
\* concurrently, exactly one of them returns True and the other returns
\* False: no two calls on one session id, which is created only once, have
\* both returned True
C38_OneDeleteReturnsTrue ==
    \A t \in Threads, u \in Threads :
        /\ t # u
        /\ th[t].op = "delete" /\ th[t].pc = "done"
        /\ th[u].op = "delete" /\ th[u].pc = "done"
        /\ th[t].sid = th[u].sid
        => ~(th[t].res = "True" /\ th[u].res = "True")

----------------------------------------------------------------------------
(* Two suggest calls on one session *)

\* the suggest of thread t has ended after reading the session and finding
\* no usable cached suggestion
RanPipeline(t) ==
    /\ th[t].op = "suggest" /\ th[t].pc = "done"
    /\ th[t].sg.lookup \in {"miss", "broken"}

\* C39: when two suggest calls on the same session overlap, the cached
\* suggestion left in the session after both complete is the one computed
\* from the more recent of the two snapshots read: once both calls have
\* ended and the record is still there, it carries a valid suggestion with
\* the fingerprint of a call that read no older snapshot than the other
C39_NewerSnapshotWins ==
    \A t \in Threads, u \in Threads :
        /\ t # u
        /\ RanPipeline(t) /\ RanPipeline(u)
        /\ th[t].sid = th[u].sid
        /\ th[t].sg.seen >= th[u].sg.seen
        /\ rec[th[t].sid].st = "full"
        => /\ rec[th[t].sid].cached_suggest # NoCache
           /\ ValidPayload(rec[th[t].sid].cached_suggest.payload)
           /\ \/ rec[th[t].sid].cached_suggest.fingerprint = th[t].sg.fingerprint
              \/ /\ th[u].sg.seen = th[t].sg.seen
                 /\ rec[th[t].sid].cached_suggest.fingerprint = th[u].sg.fingerprint

----------------------------------------------------------------------------
(* Ingest into a session whose events carry artifact signals *)

\* number of requests of an ingest run
MaxIngestOps == 2

\* the events an agent sends to append_events, and the event that
\* append_note(session_id, message) builds
IngestedEvents ==
    {Event("command", <<"nmap", "-sV", "10.10.10.25">>, << >>, << >>, FALSE),
     Event("note", << >>, <<"notes">>, << >>, TRUE)}
NoteEvents == {Event("note", << >>, <<"final">>, << >>, FALSE)}

\* the store over session a; call.payload is the event behind each event
\* number that will be appended
InitIngest ==
    /\ max_events = MaxCap
    /\ StoreDir(Hot, MaxIngestOps)
    /\ call \in {[fn |-> "ingest", payload |-> payload] :
                    payload \in [1 .. MaxAppended -> IngestedEvents \cup NoteEvents]}

RequestIngest(t) ==
    \/ StartAppendEvents(t, Hot)
    \/ StartAppendNote(t, Hot) /\ call.payload[nextEv + 1] \in NoteEvents

NextIngest ==
    \E t \in {"t1"} :
        RequestIngest(t) \/ LockStep(t) \/ UpdateStep(t) \/ WriteStep(t)

SpecIngest == InitIngest /\ [][NextIngest]_vars

\* session.events of a stored record
EventsOf(file) == [i \in 1 .. Len(file.events) |-> call.payload[file.events[i]]]

\* infer_missing_artifacts(session.events, phase), as a set
MissingArtifacts(file, phase) ==
    LET present == InferArtifacts(EventsOf(file))
        required == PHASE_REQUIRED_ARTIFACTS(phase)
    IN  {required[i] : i \in {j \in 1 .. Len(required) : required[j] \notin present}}

\* in a step that rewrites the record of s, no artifact that was not missing
\* for a phase becomes missing for it
StaysPresent(s) ==
    rec'[s] # rec[s] =>
        \A i \in 1 .. Len(PHASES) :
            MissingArtifacts(rec'[s], PHASES[i]) \subseteq MissingArtifacts(rec[s], PHASES[i])

\* C40 as stated: for a fixed phase, ingesting more events into a session
\* never makes an artifact missing again: once infer_missing_artifacts over
\* the persisted events omits an artifact, it omits it after every later
\* append_events / append_note on the session
C40_ArtifactNeverMissingAgain ==
    [][\A s \in Hot :
          rec[s].st = "full" /\ rec'[s].st = "full" => StaysPresent(s)]_vars

\* C40, amended: the same as long as the session has received at most
\* max_events events in all, so that the cap has evicted none
C40_ArtifactStaysWhileNothingEvicted ==
    [][\A s \in Hot :
          /\ rec[s].st = "full" /\ rec'[s].st = "full"
          /\ Len(log'[s]) <= max_events
          => StaysPresent(s)]_vars

\* C40 witness: the record holds, within the cap, an event that signals
\* service_inventory followed by one that does not, appended by a later call
\* that has returned
C40_Witness ==
    \E t \in Threads :
        /\ th[t].pc = "done" /\ th[t].res = "ok" /\ th[t].arg = <<2>>
        /\ rec["a"].st = "full" /\ rec["a"].events = <<1, 2>>
        /\ Len(log["a"]) <= max_events
        /\ "service_inventory" \in InferArtifacts(<<call.payload[1]>>)
        /\ "service_inventory" \notin InferArtifacts(<<call.payload[2]>>)
        /\ "service_inventory" \notin MissingArtifacts(rec["a"], "recon")

============================================================================
